---- MODULE Spec2Model ----
(***************************************************************************)
(* AgentCoreMemoryManager (src/utils/agentcore_memory_manager.py): the     *)
(* session/memory component that coordinates the conversation event store  *)
(* (bedrock_agentcore MemoryClient) and the session metadata table         *)
(* (DynamoDB 'customer-support-sessions').                                 *)
(*                                                                         *)
(* Texts (user identifiers, messages, rendered context) are sequences of   *)
(* one-character strings, so that sanitization, lower-casing, substring    *)
(* search, truncation and joining are computed as the code computes them.  *)
(* Every call to a backing store may raise: the failure of each call is an *)
(* input of the action that issues it.                                     *)
(***************************************************************************)
EXTENDS Integers, Sequences, FiniteSets, TLC

VARIABLES
    initialized,    \* self.initialized
    memory_client,  \* self.memory_client: "None" or "MemoryClient"
    memory_id,      \* self.memory_id: "None" or the id of the memory resource
    session_table,  \* self.session_table: "None" or "Table"
    events,         \* the event store: the set of stored events
    table,          \* the metadata table: the set of rows, one per (user_id, session_id)
    clock,          \* the wall clock read by datetime.now(): the last value read
    generated,      \* the session identifiers uuid4 has produced so far
    faults,         \* how many write operations so far met a failing store call
    reads,          \* how many read operations the behaviour holds so far
    last,           \* the last public operation: its arguments, store calls and result
    inflight,       \* the store_message calls running concurrently, each with its
                    \* position and local variables
    ui              \* st.session_state of one browser session and the position of
                    \* the script run it is in

\* The name of the last operation stands first: the results of different
\* operations are values of different kinds, and two states are compared
\* component by component from the left.
vars == <<last.op, initialized, memory_client, memory_id, session_table, events,
          table, clock, generated, faults, reads, last, inflight, ui>>

----------------------------------------------------------------------------
(* Bounds of the model *)

\* How many session identifiers uuid4 can produce.
MaxSessions == 1
\* How many store_message calls a behaviour holds.
MaxStores == 2
\* How many characters the long message has beyond the context truncation.
LongExtra == 5
\* The largest explicit max_messages argument tried (besides the default).
MaxCtxArg == 1
\* How many write operations of a behaviour may meet a failing store call (any
\* number of the calls of such an operation may fail).
MaxFaultyWrites == 1
\* How many read operations a behaviour holds: a read changes neither store, so
\* behaviours with more reads reach no other store state; the last read ends
\* the behaviour.
MaxReads == 1
\* How many exchanges the long prior session holds beyond the exchanges whose
\* events fill one listing of MaxResults events.
PageExtra == 1
\* How many exchanges the histories hold that get_user_preferences is tried on.
MaxHistory == 3
\* How many characters the user identifiers have that sanitization is tried on.
MaxIdLen == 3
\* The behaviours the metadata table is examined on: how many session
\* identifiers uuid4 can produce, how many store_message calls, how many
\* get_user_sessions calls and how many writes meeting a failing call they hold.
RowSessions == 2
RowStores == 2
RowReads == 2
RowFaults == 1
\* How many exchanges the newer of two sessions holds at most, where
\* get_user_preferences is tried on two sessions.
MaxNewer == 2
\* One browser session: how many session identifiers uuid4 can produce, how
\* many read operations and how many exchanges its script runs make, and how
\* many of its writes may meet a failing store call.
UISessions == 2
UIReads == 6
UIStores == 2
UIFaults == 1
\* How many store_message calls run concurrently, and how many of their store
\* calls may fail.
Callers == 2
CallerFaults == 1
\* How many individual event deletes may fail in one delete_session
\* (besides the case where all of them fail).
MaxDeleteFailures == 1

(* Program constants *)

\* list_events(..., max_results=100)
MaxResults == 100
\* msg['content'][:200]
ContextBodyLimit == 200
\* get_conversation_context(..., max_messages: int = 10)
DefaultMaxMessages == 10
\* last_message[:100], response[:100]
PreviewLimit == 100
\* get_user_sessions(user_id, limit=5) in get_user_preferences
\* get_user_sessions(user_id, limit=10) in the sidebar
UISessionLimit == 10
\* cleaned_response.replace('                    ', ''): the run of spaces removed
IndentWidth == 20
PrefSessionLimit == 5
\* user_messages[-20:]
PrefMessageLimit == 20
\* follow_ups[:3]
FollowUpLimit == 3

----------------------------------------------------------------------------
(* Characters and texts *)

LowerLetters == <<"a", "b", "c", "d", "e", "f", "g", "h", "i", "j", "k", "l", "m",
                  "n", "o", "p", "q", "r", "s", "t", "u", "v", "w", "x", "y", "z">>
UpperLetters == <<"A", "B", "C", "D", "E", "F", "G", "H", "I", "J", "K", "L", "M",
                  "N", "O", "P", "Q", "R", "S", "T", "U", "V", "W", "X", "Y", "Z">>
Digits == <<"0", "1", "2", "3", "4", "5", "6", "7", "8", "9">>

Range(s) == {s[i] : i \in 1..Len(s)}

\* [a-zA-Z0-9]
IsAlnum(c) == c \in Range(LowerLetters) \cup Range(UpperLetters) \cup Range(Digits)
\* [a-zA-Z0-9_-]
IsActorChar(c) == IsAlnum(c) \/ c = "_" \/ c = "-"

\* str.lower() on one character
LowerChar(c) ==
    IF \E i \in 1..Len(UpperLetters) : UpperLetters[i] = c
    THEN LowerLetters[CHOOSE i \in 1..Len(UpperLetters) : UpperLetters[i] = c]
    ELSE c
\* The characters of the texts of the model, and str.lower() on each of them.
Alphabet ==
    Range(LowerLetters) \cup Range(UpperLetters) \cup Range(Digits)
        \cup {" ", ".", "_", "-", "@", ":", "\n"}
LowerOf == [c \in Alphabet |-> LowerChar(c)]
\* str.lower()
Lower(s) == [i \in 1..Len(s) |-> LowerOf[s[i]]]

\* kw in s
Contains(s, kw) ==
    \E i \in 1..(Len(s) - Len(kw) + 1) : s[i] = kw[1] /\ SubSeq(s, i, i + Len(kw) - 1) = kw

\* s[:n] for n >= 0
Prefix(s, n) == SubSeq(s, 1, IF Len(s) < n THEN Len(s) ELSE n)

\* s[-n:] for n >= 0: with n = 0 the slice starts at index -0 = 0, the whole list
SliceLast(s, n) ==
    IF n = 0 THEN s
    ELSE SubSeq(s, (IF Len(s) > n THEN Len(s) - n ELSE 0) + 1, Len(s))

RECURSIVE Join(_, _)
\* sep.join(parts)
Join(parts, sep) ==
    IF Len(parts) = 0 THEN <<>>
    ELSE IF Len(parts) = 1 THEN parts[1]
    ELSE parts[1] \o sep \o Join(Tail(parts), sep)

KwWarranty == <<"w", "a", "r", "r", "a", "n", "t", "y">>
KwProfile == <<"p", "r", "o", "f", "i", "l", "e">>
KwAccount == <<"a", "c", "c", "o", "u", "n", "t">>
KwMars == <<"m", "a", "r", "s">>
KwWeather == <<"w", "e", "a", "t", "h", "e", "r">>
KwCustomer == <<"c", "u", "s", "t", "o", "m", "e", "r">>

HumanPrefix == <<"H", "u", "m", "a", "n", ":", " ">>
AssistantPrefix == <<"A", "s", "s", "i", "s", "t", "a", "n", "t", ":", " ">>
Newline == <<"\n">>

\* The texts the operations are called with.
TxtWarranty == <<"C", "h", "e", "c", "k", " ", "m", "y", " ", "W", "a", "r", "r",
                 "a", "n", "t", "y">>
TxtAccount == <<"m", "y", " ", "a", "c", "c", "o", "u", "n", "t">>
\* A message about the account that is longer than the context keeps.
TxtLongAccount == TxtAccount \o [i \in 1..(ContextBodyLimit + LongExtra - Len(TxtAccount)) |-> "x"]
TxtMars == <<"M", "a", "r", "s", " ", "w", "e", "a", "t", "h", "e", "r">>
TxtReply == <<"o", "k">>

\* A message with keywords of two categories.
TxtWarrantyMars == <<"w", "a", "r", "r", "a", "n", "t", "y", " ", "o", "n", " ",
                     "M", "a", "r", "s">>

Messages == {TxtWarranty, TxtLongAccount}
Responses == {TxtReply}
Queries == {TxtReply, TxtWarranty, TxtMars}
\* get_conversation_context does not read its query argument.
ContextQueries == {TxtReply}

\* The user identifiers: two different ones with the same actor identifier.
UserDot == <<"a", ".", "b">>
UserUnderscore == <<"a", "_", "b">>
Users == {UserDot, UserUnderscore}

\* f"session-{uuid.uuid4()}": the uuid is one of MaxSessions values
SessionId(uuid) == <<"session-", uuid>>
SessionIds == {SessionId(u) : u \in 1..MaxSessions}

None == "None"

\* st.session_state with no browser session open
NoUI ==
    [pc |-> "off", session_id |-> <<>>, confirm_delete |-> {}, chat_history |-> <<>>,
     query |-> <<>>, prompt |-> <<>>, outcome |-> "none", reply |-> <<>>,
     steps |-> <<>>]

----------------------------------------------------------------------------
(* _sanitize_actor_id *)

\* The identifier with its disallowed characters left in place
KeepDisallowed(s) == s

\* re.sub(r'[^a-zA-Z0-9_-]', '_', user_id)
ReplaceDisallowed(s) == [i \in 1..Len(s) |-> IF IsActorChar(s[i]) THEN s[i] ELSE "_"]

RECURSIVE StripLeadingNonAlnum(_)
\* re.sub(r'^[^a-zA-Z0-9]+', '', sanitized)
StripLeadingNonAlnum(s) ==
    IF Len(s) = 0 \/ IsAlnum(s[1]) THEN s ELSE StripLeadingNonAlnum(Tail(s))

RECURSIVE StripTrailingDisallowed(_)
\* re.sub(r'[^a-zA-Z0-9_-]+$', '', sanitized)
StripTrailingDisallowed(s) ==
    IF Len(s) = 0 \/ IsActorChar(s[Len(s)]) THEN s
    ELSE StripTrailingDisallowed(SubSeq(s, 1, Len(s) - 1))

\* The identifier with its runs of underscores kept
KeepUnderscores(s) == s

RECURSIVE CollapseUnderscores(_)
\* re.sub(r'_+', '_', sanitized)
CollapseUnderscores(s) ==
    IF Len(s) <= 1 THEN s
    ELSE IF s[1] = "_" /\ s[2] = "_" THEN CollapseUnderscores(Tail(s))
    ELSE <<s[1]>> \o CollapseUnderscores(Tail(s))

PlaceholderActor == <<"u", "s", "e", "r">>

_sanitize_actor_id(user_id) ==
    LET sanitized == CollapseUnderscores(StripTrailingDisallowed(
                         StripLeadingNonAlnum(ReplaceDisallowed(user_id))))
    IN IF sanitized = <<>> THEN PlaceholderActor ELSE sanitized

----------------------------------------------------------------------------
(* The two backing stores *)

\* One store call of an operation, as the operation's log keeps it.
Call(name, ok) == [call |-> name, ok |-> ok]

\* A clock that stands still between two reads
NowStandsStill(clk) == clk

\* datetime.now() read when the last value read was clk: a later instant
Now(clk) == clk + 1

\* The event the store keeps for create_event(memory_id, actor_id, session_id,
\* messages=[(text, role)], event_timestamp): the store gives it a unique
\* eventId (here its creation instant).
NewEvent(actor_id, session_id, text, role, ts) ==
    [eventId |-> ts, actorId |-> actor_id, sessionId |-> session_id,
     payload |-> <<[kind |-> "conversational", role |-> role, text |-> text]>>,
     eventTimestamp |-> ts]

EventsOf(evs, actor_id, session_id) ==
    {e \in evs : e.actorId = actor_id /\ e.sessionId = session_id}

Least(T) == CHOOSE t \in T : \A u \in T : t <= u
Greatest(T) == CHOOSE t \in T : \A u \in T : t >= u

RECURSIVE EventsBetween(_, _, _)
\* The events of S with a timestamp in lo..hi, by ascending timestamp (the
\* store gives no two events the same timestamp).
EventsBetween(S, lo, hi) ==
    IF lo > hi THEN <<>>
    ELSE IF lo = hi
    THEN LET at == {e \in S : e.eventTimestamp = lo}
         IN IF at = {} THEN <<>> ELSE <<CHOOSE e \in at : TRUE>>
    ELSE LET mid == (lo + hi) \div 2
         IN EventsBetween(S, lo, mid) \o EventsBetween(S, mid + 1, hi)

\* The events of S by ascending timestamp.
OldestFirst(S) ==
    IF S = {} THEN <<>>
    ELSE LET stamps == {e.eventTimestamp : e \in S}
         IN EventsBetween(S, Least(stamps), Greatest(stamps))

Reverse(s) == [i \in 1..Len(s) |-> s[Len(s) + 1 - i]]

\* The events of S as the store lists them: oldest first or newest first.
InStoreOrder(S, order) ==
    IF order = "asc" THEN OldestFirst(S) ELSE Reverse(OldestFirst(S))
StoreOrders == {"asc", "desc"}

\* memory_client.list_events(memory_id, actor_id, session_id, max_results):
\* raises when there is no client (AttributeError on None), when memory_id is
\* None (the request is rejected) or when the call fails; otherwise the first
\* max_results events of the pair in the store's order.
list_events(actor_id, session_id, max_results, fail, order) ==
    IF memory_client = None \/ memory_id = None \/ fail
    THEN [exc |-> TRUE, val |-> <<>>]
    ELSE [exc |-> FALSE,
          val |-> Prefix(InStoreOrder(EventsOf(events, actor_id, session_id), order),
                         max_results)]

SameKey(r, user_id, session_id) == r.user_id = user_id /\ r.session_id = session_id

\* session_table.put_item(Item=item): the item replaces the row with its key
PutItem(tb, item) ==
    {r \in tb : ~SameKey(r, item.user_id, item.session_id)} \cup {item}

\* session_table.delete_item(Key={user_id, session_id})
DeleteItem(tb, user_id, session_id) == {r \in tb : ~SameKey(r, user_id, session_id)}

\* A read of the count that never finds the row
StoredCountMissed(tb, user_id, session_id) == 0

\* session_table.get_item(Key=...).get('Item', {}).get('message_count', 0)
StoredCount(tb, user_id, session_id) ==
    IF \E r \in tb : SameKey(r, user_id, session_id)
    THEN (CHOOSE r \in tb : SameKey(r, user_id, session_id)).message_count
    ELSE 0

\* The uuid of a session identifier: the table's sort key orders by it.
UuidOf(session_id) == session_id[2]

RECURSIVE DescendingBySortKey(_)
\* query(..., ScanIndexForward=False): the rows by descending sort key (session_id)
DescendingBySortKey(S) ==
    IF S = {} THEN <<>>
    ELSE LET first == CHOOSE r \in S : \A q \in S : UuidOf(r.session_id) >= UuidOf(q.session_id)
         IN <<first>> \o DescendingBySortKey(S \ {first})

\* session_table.query(KeyConditionExpression=Key('user_id').eq(user_id),
\*                     ScanIndexForward=False, Limit=limit)
Query(tb, user_id, limit) ==
    Prefix(DescendingBySortKey({r \in tb : r.user_id = user_id}), limit)

----------------------------------------------------------------------------
(* Construction *)

\* _initialize_agentcore: the fields it leaves, by how it ends.
\*   "no_client":  the import or MemoryClient(...) raised
\*   "no_memory":  list_memories or create_memory_and_wait raised
\*   "attached":   an existing memory was found or a new one created
AgentCoreOutcomes == {"no_client", "no_memory", "attached"}
_initialize_agentcore(outcome) ==
    [memory_client |-> IF outcome = "no_client" THEN None ELSE "MemoryClient",
     memory_id |-> IF outcome = "attached" THEN "customerSupportMemory" ELSE None,
     initialized |-> (outcome = "attached")]

\* _ensure_session_table_exists: self.session_table is assigned before load(),
\* so the handle is absent only when dynamodb.Table(...) itself raised; a failed
\* load() or create_table() leaves the handle in place.
\*   "no_handle":  dynamodb.Table(...) raised
\*   "attached":   load() succeeded, or the table was created
\*   "failed":     load() raised another error, or create_table raised
TableOutcomes == {"no_handle", "attached", "failed"}
_ensure_session_table_exists(outcome) ==
    IF outcome = "no_handle" THEN None ELSE "Table"

----------------------------------------------------------------------------
(* The operations, each as the result it computes from the current state:  *)
(* the stores it leaves, the clock, its return value, whether an exception *)
(* leaves it, and the store calls it made.                                 *)

Result(evs, tb, clk, ret, raised, calls) ==
    [events |-> evs, table |-> tb, clock |-> clk, ret |-> ret, raised |-> raised,
     calls |-> calls]

\* 'New session started'
NewSessionPreview == <<"N", "e", "w", " ", "s", "e", "s", "s", "i", "o", "n", " ",
                       "s", "t", "a", "r", "t", "e", "d">>

\* create_session returning nothing when its put_item raises
create_session_lost(user_id, uuid, fput) ==
    IF session_table # None /\ fput
    THEN Result(events, table, Now(clock), <<>>, FALSE, <<Call("put_item", FALSE)>>)
    ELSE Result(events, table, clock, SessionId(uuid), FALSE, <<>>)

\* create_session writing a row that already counts one exchange
create_session_counted(user_id, uuid, fput) ==
    IF session_table # None /\ ~fput
    THEN Result(events,
                PutItem(table, [user_id |-> user_id, session_id |-> SessionId(uuid),
                                last_message |-> NewSessionPreview,
                                last_response |-> <<>>, last_updated |-> Now(clock),
                                message_count |-> 1]),
                Now(clock), SessionId(uuid), FALSE, <<Call("put_item", TRUE)>>)
    ELSE create_session_lost(user_id, uuid, FALSE)

\* create_session(user_id): uuid is what uuid4 returns, fput whether put_item raises
create_session(user_id, uuid, fput) ==
    LET session_id == SessionId(uuid)
        timestamp == Now(clock)
        item == [user_id |-> user_id, session_id |-> session_id,
                 last_message |-> NewSessionPreview, last_response |-> <<>>,
                 last_updated |-> timestamp, message_count |-> 0]
    IN IF session_table # None
       THEN IF fput
            THEN Result(events, table, timestamp, session_id, FALSE,
                        <<Call("put_item", FALSE)>>)
            ELSE Result(events, PutItem(table, item), timestamp, session_id, FALSE,
                        <<Call("put_item", TRUE)>>)
       ELSE Result(events, table, clock, session_id, FALSE, <<>>)

\* _update_session_metadata writing the row under the sanitized actor id
_update_session_metadata_by_actor(user_id, session_id, last_message, response, clk, fget, fput) ==
    IF session_table = None
    THEN [table |-> table, clock |-> clk, calls |-> <<>>]
    ELSE [table |-> IF fput THEN table
                    ELSE PutItem(table,
                                 [user_id |-> _sanitize_actor_id(user_id),
                                  session_id |-> session_id,
                                  last_message |-> Prefix(last_message, PreviewLimit),
                                  last_response |-> Prefix(response, PreviewLimit),
                                  last_updated |-> Now(clk), message_count |-> 1]),
          clock |-> Now(clk),
          calls |-> <<Call("get_item", ~fget), Call("put_item", ~fput)>>]

\* _update_session_metadata(user_id, session_id, last_message, response), entered
\* with the clock at clk: fget, fput whether get_item, put_item raise. It catches
\* every exception of its own.
_update_session_metadata(user_id, session_id, last_message, response, clk, fget, fput) ==
    IF session_table = None
    THEN [table |-> table, clock |-> clk, calls |-> <<>>]
    ELSE LET timestamp == Now(clk)
             message_count == IF fget THEN 1
                              ELSE StoredCount(table, user_id, session_id) + 1
             item == [user_id |-> user_id, session_id |-> session_id,
                      last_message |-> Prefix(last_message, PreviewLimit),
                      last_response |-> Prefix(response, PreviewLimit),
                      last_updated |-> timestamp, message_count |-> message_count]
         IN [table |-> IF fput THEN table ELSE PutItem(table, item),
             clock |-> timestamp,
             calls |-> <<Call("get_item", ~fget), Call("put_item", ~fput)>>]

\* A store_message that takes the user event back when the second
\* create_event raises
store_message_body_rollback(user_id, session_id, message, response, f1, f2, fget, fput) ==
    LET base_timestamp == Now(clock)
        response_timestamp == Now(base_timestamp)
        meta == _update_session_metadata(user_id, session_id, message, response,
                                         response_timestamp, fget, fput)
    IN IF f1
       THEN Result(events, table, base_timestamp, None, FALSE,
                   <<Call("create_event", FALSE)>>)
       ELSE IF f2
       THEN Result(events, table, response_timestamp, None, FALSE,
                   <<Call("create_event", TRUE), Call("create_event", FALSE)>>)
       ELSE Result(events \cup {NewEvent(_sanitize_actor_id(user_id), session_id, message,
                                         "USER", base_timestamp),
                                NewEvent(_sanitize_actor_id(user_id), session_id, response,
                                         "ASSISTANT", response_timestamp)},
                   meta.table, meta.clock, None, FALSE,
                   <<Call("create_event", TRUE), Call("create_event", TRUE)>>
                       \o meta.calls)

\* store_message(user_id, session_id, message, response): f1, f2 whether the
\* first and the second create_event raise
store_message_body(user_id, session_id, message, response, f1, f2, fget, fput) ==
         LET actor_id == _sanitize_actor_id(user_id)
             base_timestamp == Now(clock)
             user_event == NewEvent(actor_id, session_id, message, "USER", base_timestamp)
             \* time.sleep(0.1), then datetime.now() again
             response_timestamp == Now(base_timestamp)
             assistant_event == NewEvent(actor_id, session_id, response, "ASSISTANT",
                                         response_timestamp)
             meta == _update_session_metadata(user_id, session_id, message, response,
                                              response_timestamp, fget, fput)
         IN IF f1
            THEN Result(events, table, base_timestamp, None, FALSE,
                        <<Call("create_event", FALSE)>>)
            ELSE IF f2
            THEN Result(events \cup {user_event}, table, response_timestamp, None, FALSE,
                        <<Call("create_event", TRUE), Call("create_event", FALSE)>>)
            ELSE Result(events \cup {user_event, assistant_event}, meta.table, meta.clock,
                        None, FALSE,
                        <<Call("create_event", TRUE), Call("create_event", TRUE)>>
                            \o meta.calls)

\* store_message without its "if not self.initialized: return"
store_message_unguarded(user_id, session_id, message, response, f1, f2, fget, fput) ==
    store_message_body(user_id, session_id, message, response, f1, f2, fget, fput)

store_message(user_id, session_id, message, response, f1, f2, fget, fput) ==
    IF ~initialized THEN Result(events, table, clock, None, FALSE, <<>>)
    ELSE store_message_body(user_id, session_id, message, response, f1, f2, fget, fput)

\* One turn of get_session_messages' result.
Turn(role, content, timestamp) ==
    [role |-> role, content |-> content, timestamp |-> timestamp]

\* A pass of the loop that takes every first payload entry for a turn
ParseEventUnchecked(event) ==
    IF Len(event.payload) > 0
    THEN <<Turn(IF event.payload[1].role = "USER" THEN "user" ELSE "assistant",
                event.payload[1].text, event.eventTimestamp)>>
    ELSE <<>>

\* One pass of the loop over the listed events: an event without payload, with
\* a first payload entry that is not conversational, or with an empty text adds
\* nothing.
ParseEvent(event) ==
    IF Len(event.payload) > 0 /\ event.payload[1].kind = "conversational"
       /\ event.payload[1].text # <<>>
    THEN <<Turn(IF event.payload[1].role = "USER" THEN "user" ELSE "assistant",
                event.payload[1].text, event.eventTimestamp)>>
    ELSE <<>>

RECURSIVE ParseEvents(_)
\* for event in events: ... messages.append(...), in the order of the listing
ParseEvents(evs) ==
    IF Len(evs) = 0 THEN <<>>
    ELSE IF Len(evs) = 1 THEN ParseEvent(evs[1])
    ELSE LET mid == Len(evs) \div 2
         IN ParseEvents(SubSeq(evs, 1, mid)) \o ParseEvents(SubSeq(evs, mid + 1, Len(evs)))

RECURSIVE TurnsBetween(_, _, _)
\* The turns of messages with a timestamp in lo..hi by ascending timestamp,
\* turns of one timestamp in the order they have in messages.
TurnsBetween(messages, lo, hi) ==
    IF lo > hi THEN <<>>
    ELSE IF lo = hi THEN SelectSeq(messages, LAMBDA m : m.timestamp = lo)
    ELSE LET mid == (lo + hi) \div 2
         IN TurnsBetween(messages, lo, mid) \o TurnsBetween(messages, mid + 1, hi)

\* The turns in the order of the listing, without the sort
Unsorted(messages) == messages

\* sorted(messages, key=lambda x: x.get('timestamp', '')): a stable sort
SortedByTimestamp(messages) ==
    IF Len(messages) = 0 THEN <<>>
    ELSE LET stamps == {messages[i].timestamp : i \in 1..Len(messages)}
         IN TurnsBetween(messages, Least(stamps), Greatest(stamps))

\* get_session_messages without its except clause: the exception leaves it
get_session_messages_raises(calls) == Result(events, table, clock, None, TRUE, calls)

\* except Exception as e: ... return []
get_session_messages_except(calls) == Result(events, table, clock, <<>>, FALSE, calls)

\* A get_session_messages that removes from the store the events it lists
get_session_messages_consuming(user_id, session_id, flist, order) ==
    LET listing == list_events(_sanitize_actor_id(user_id), session_id, MaxResults,
                               flist, order)
    IN IF ~initialized THEN Result(events, table, clock, <<>>, FALSE, <<>>)
       ELSE IF listing.exc
       THEN Result(events, table, clock, <<>>, FALSE, <<Call("list_events", FALSE)>>)
       ELSE Result(events \ Range(listing.val), table, clock,
                   SortedByTimestamp(ParseEvents(listing.val)), FALSE,
                   <<Call("list_events", TRUE)>>)

\* get_session_messages(user_id, session_id): flist whether list_events raises,
\* order the order in which the store lists the events
get_session_messages(user_id, session_id, flist, order) ==
    IF ~initialized THEN Result(events, table, clock, <<>>, FALSE, <<>>)
    ELSE LET actor_id == _sanitize_actor_id(user_id)
             listing == list_events(actor_id, session_id, MaxResults, flist, order)
         IN IF listing.exc
            THEN get_session_messages_except(<<Call("list_events", FALSE)>>)
            ELSE Result(events, table, clock, SortedByTimestamp(ParseEvents(listing.val)),
                        FALSE, <<Call("list_events", TRUE)>>)

\* messages[-max_messages:] if messages else []
RecentMessages(messages, max_messages) ==
    IF messages # <<>> THEN SliceLast(messages, max_messages) ELSE <<>>

\* The body of a turn without the truncation
WholeBody(content) == content

\* msg['content'][:200]
ContextBody(content) == Prefix(content, ContextBodyLimit)

\* f"{role}: {content}" of one turn
ContextPart(msg) ==
    (IF msg.role = "user" THEN HumanPrefix ELSE AssistantPrefix) \o ContextBody(msg.content)

\* get_conversation_context(user_id, session_id, query, max_messages): it has no
\* try of its own, so an exception of get_session_messages would leave it too
get_conversation_context(user_id, session_id, query, max_messages, flist, order) ==
    LET got == get_session_messages(user_id, session_id, flist, order)
        recent_messages == RecentMessages(got.ret, max_messages)
        context_parts == [i \in 1..Len(recent_messages) |-> ContextPart(recent_messages[i])]
    IN IF got.raised THEN Result(events, table, clock, None, TRUE, got.calls)
       ELSE Result(events, table, clock, Join(context_parts, Newline), FALSE, got.calls)

\* A get_user_sessions that removes from the table the rows it returns
get_user_sessions_evicting(user_id, limit, fail) ==
    IF session_table = None \/ fail # "none"
    THEN Result(events, table, clock, <<>>, FALSE, <<>>)
    ELSE Result(events, table \ Range(Query(table, user_id, limit)), clock,
                Query(table, user_id, limit), FALSE,
                <<Call("load", TRUE), Call("query", TRUE)>>)

\* except Exception as e: ... return []
get_user_sessions_except(calls) == Result(events, table, clock, <<>>, FALSE, calls)

\* get_user_sessions(user_id, limit): fail is "load" or "query" when that call
\* raises, "none" otherwise
TableFailures == {"none", "load", "query"}
get_user_sessions(user_id, limit, fail) ==
    IF session_table = None THEN Result(events, table, clock, <<>>, FALSE, <<>>)
    ELSE IF fail = "load"
    THEN get_user_sessions_except(<<Call("load", FALSE)>>)
    ELSE IF fail = "query"
    THEN get_user_sessions_except(<<Call("load", TRUE), Call("query", FALSE)>>)
    ELSE Result(events, table, clock, Query(table, user_id, limit), FALSE,
                <<Call("load", TRUE), Call("query", TRUE)>>)

----------------------------------------------------------------------------
(* Preferences and follow-up questions *)

RECURSIVE SessionMessages(_, _, _, _)
\* for session in sessions: all_messages.extend(get_session_messages(...)), as
\* the results of the calls, in order; flists are the sessions whose listing raises
SessionMessages(user_id, sessions, flists, order) ==
    IF Len(sessions) = 0 THEN <<>>
    ELSE <<get_session_messages(user_id, sessions[1].session_id,
                                sessions[1].session_id \in flists, order)>>
         \o SessionMessages(user_id, Tail(sessions), flists, order)

RECURSIVE Flatten(_)
Flatten(seqs) == IF Len(seqs) = 0 THEN <<>> ELSE seqs[1] \o Flatten(Tail(seqs))

IsUserTurn(msg) == msg.role = "user"

\* The if/elif chain with its tests in the opposite order
CategoryLastMatch(msg) ==
    LET content == Lower(msg.content)
    IN IF Contains(content, KwMars) \/ Contains(content, KwWeather)
       THEN <<"preferred_topics", "space_data">>
       ELSE IF Contains(content, KwProfile) \/ Contains(content, KwAccount)
       THEN <<"common_issues", "account">>
       ELSE IF Contains(content, KwWarranty) THEN <<"common_issues", "warranty">>
       ELSE <<"none", "none">>

\* The category one user message is filed under: the if/elif chain
Category(msg) ==
    LET content == Lower(msg.content)
    IN IF Contains(content, KwWarranty) THEN <<"common_issues", "warranty">>
       ELSE IF Contains(content, KwProfile) \/ Contains(content, KwAccount)
       THEN <<"common_issues", "account">>
       ELSE IF Contains(content, KwMars) \/ Contains(content, KwWeather)
       THEN <<"preferred_topics", "space_data">>
       ELSE <<"none", "none">>

RECURSIVE Appended(_, _)
\* preferences[key].append(...) over the categories of the inspected messages,
\* in order
Appended(categories, key) ==
    IF Len(categories) = 0 THEN <<>>
    ELSE (IF categories[1][1] = key THEN <<categories[1][2]>> ELSE <<>>)
         \o Appended(Tail(categories), key)

RECURSIVE FirstOccurrences(_)
FirstOccurrences(s) ==
    IF Len(s) = 0 THEN <<>>
    ELSE LET init == FirstOccurrences(SubSeq(s, 1, Len(s) - 1))
         IN IF s[Len(s)] \in Range(init) THEN init ELSE Append(init, s[Len(s)])

\* list(set(s)): the distinct entries of s in the order the set iterates, which
\* the hash of the strings fixes: rev chooses between the two orders of the (at
\* most two) distinct entries
ListOfSet(s, rev) == IF rev THEN Reverse(FirstOccurrences(s)) ELSE FirstOccurrences(s)

\* The failures one get_user_preferences may meet: in get_user_sessions, or in
\* the event listing of some of the sessions.
PreferenceFailures(sessions) ==
    {<<ftable, {}>> : ftable \in TableFailures}
        \cup {<<"none", flists>> : flists \in SUBSET sessions \ {{}}}

\* get_user_preferences(user_id): ftable the failure of get_user_sessions' calls,
\* flists the sessions whose event listing raises
get_user_preferences(user_id, ftable, flists, order, rev) ==
    LET sessions == get_user_sessions(user_id, PrefSessionLimit, ftable)
        gots == SessionMessages(user_id, sessions.ret, flists, order)
        all_messages == Flatten([i \in 1..Len(gots) |-> gots[i].ret])
        user_messages == SelectSeq(all_messages, IsUserTurn)
        inspected == SliceLast(user_messages, PrefMessageLimit)
        categories == [i \in 1..Len(inspected) |-> Category(inspected[i])]
        calls == sessions.calls \o Flatten([i \in 1..Len(gots) |-> gots[i].calls])
        preferences ==
            [communication_style |-> "professional",
             preferred_topics |-> ListOfSet(Appended(categories, "preferred_topics"), rev),
             common_issues |-> ListOfSet(Appended(categories, "common_issues"), rev),
             response_length |-> "medium"]
    IN IF sessions.raised \/ \E i \in 1..Len(gots) : gots[i].raised
       THEN Result(events, table, clock, None, TRUE, calls)
       ELSE Result(events, table, clock, preferences, FALSE, calls)

FollowUpWarrantyHistory == "Would you like me to check the warranty status of any other products?"
FollowUpAccountHistory == "Do you need help updating your account information?"
FollowUpWarrantyQuery == <<"Would you like me to explain the warranty coverage details?",
                           "Do you need help with a warranty claim process?">>
FollowUpProfileQuery == <<"Would you like to update any of your profile information?",
                          "Do you need help with your communication preferences?">>
FollowUpMarsQuery == <<"Would you like to know about Mars atmospheric conditions?",
                       "Are you interested in historical Mars weather data?">>

\* The suggestions from the preferences: warranty, then account
HistoryFollowUps(preferences) ==
    (IF "warranty" \in Range(preferences.common_issues)
     THEN <<FollowUpWarrantyHistory>> ELSE <<>>)
    \o (IF "account" \in Range(preferences.common_issues)
        THEN <<FollowUpAccountHistory>> ELSE <<>>)

\* The suggestions from the current query: the if/elif chain
QueryFollowUps(current_query) ==
    LET current_lower == Lower(current_query)
    IN IF Contains(current_lower, KwWarranty) THEN FollowUpWarrantyQuery
       ELSE IF Contains(current_lower, KwProfile) \/ Contains(current_lower, KwCustomer)
       THEN FollowUpProfileQuery
       ELSE IF Contains(current_lower, KwMars) THEN FollowUpMarsQuery
       ELSE <<>>

\* The candidate list without the cut
AllFollowUps(follow_ups) == follow_ups

\* follow_ups[:3]
TopFollowUps(follow_ups) == Prefix(follow_ups, FollowUpLimit)

\* generate_follow_up_questions(user_id, current_query)
generate_follow_up_questions(user_id, current_query, ftable, flists, order, rev) ==
    LET got == get_user_preferences(user_id, ftable, flists, order, rev)
    IN IF got.raised THEN Result(events, table, clock, None, TRUE, got.calls)
       ELSE Result(events, table, clock,
                   TopFollowUps(HistoryFollowUps(got.ret) \o QueryFollowUps(current_query)),
                   FALSE, got.calls)

----------------------------------------------------------------------------
(* delete_session *)

RECURSIVE SubsetsUpTo(_, _)
\* The subsets of S of at most k elements.
SubsetsUpTo(S, k) ==
    IF k = 0 THEN {{}}
    ELSE LET smaller == SubsetsUpTo(S, k - 1)
         IN smaller \cup {F \cup {e} : F \in smaller, e \in S}

\* The sets of events whose delete_event may raise in one delete_session: at
\* most MaxDeleteFailures of the listed events, or all of them.
DeleteFailures(listed) ==
    SubsetsUpTo({listed[i].eventId : i \in 1..Len(listed)}, MaxDeleteFailures)
        \cup {{listed[i].eventId : i \in 1..Len(listed)}}

\* delete_session reporting success whatever it deleted
DeleteAlwaysSucceeded(deleted_count) == deleted_count >= 0

\* return deleted_count > 0
DeleteSucceeded(deleted_count) == deleted_count > 0

\* An except clause of delete_session that clears the metadata table
delete_session_except_clearing(calls) == Result(events, {}, clock, FALSE, FALSE, calls)

\* except Exception as e: ... return False
delete_session_except(calls) == Result(events, table, clock, FALSE, FALSE, calls)

\* The metadata row's deletion after the event loop: if self.session_table: ...
DeleteMetadata(user_id, session_id, fdel) ==
    IF session_table = None THEN [table |-> table, calls |-> <<>>]
    ELSE IF fdel THEN [table |-> table, calls |-> <<Call("delete_item", FALSE)>>]
    ELSE [table |-> DeleteItem(table, user_id, session_id),
          calls |-> <<Call("delete_item", TRUE)>>]

\* The listing delete_session asks for: list_events(memory_id, actor_id,
\* session_id, max_results=100)
delete_session_listing(user_id, session_id, flist, order) ==
    list_events(_sanitize_actor_id(user_id), session_id, MaxResults, flist, order)

\* A delete_session that gives up at the first delete_event that raises
delete_session_aborting(user_id, session_id, listing, failing, fdel) ==
    IF listing.exc THEN delete_session_except(<<Call("list_events", FALSE)>>)
    ELSE IF failing # {}
    THEN delete_session_except(<<Call("list_events", TRUE), Call("delete_event", FALSE)>>)
    ELSE Result({e \in events :
                    ~(/\ e.actorId = _sanitize_actor_id(user_id)
                      /\ e.sessionId = session_id
                      /\ \E i \in 1..Len(listing.val) : listing.val[i].eventId = e.eventId)},
                DeleteMetadata(user_id, session_id, fdel).table, clock,
                DeleteSucceeded(Len(listing.val)), FALSE,
                <<Call("list_events", TRUE)>>
                    \o [i \in 1..Len(listing.val) |-> Call("delete_event", TRUE)]
                    \o DeleteMetadata(user_id, session_id, fdel).calls)

\* delete_session(user_id, session_id): listing what list_events did, failing the
\* eventIds whose delete_event raises, fdel whether delete_item raises
delete_session(user_id, session_id, listing, failing, fdel) ==
    LET actor_id == _sanitize_actor_id(user_id)
        listed == listing.val
        deleted == {listed[i].eventId : i \in 1..Len(listed)} \ failing
        deleted_count == Cardinality(deleted)
        meta == DeleteMetadata(user_id, session_id, fdel)
    IN IF listing.exc THEN delete_session_except(<<Call("list_events", FALSE)>>)
       ELSE Result({e \in events : ~(e.eventId \in deleted /\ e.actorId = actor_id
                                      /\ e.sessionId = session_id)},
                   meta.table, clock, DeleteSucceeded(deleted_count), FALSE,
                   <<Call("list_events", TRUE)>>
                       \o [i \in 1..Len(listed) |->
                              Call("delete_event", listed[i].eventId \notin failing)]
                       \o meta.calls)

----------------------------------------------------------------------------
(* The state machine *)

NoOperation == [op |-> "__init__", args |-> <<>>, ret |-> None, raised |-> FALSE,
                calls |-> <<>>]

\* The state after AgentCoreMemoryManager(region): both stores empty.
Init ==
    \E agentcore \in AgentCoreOutcomes, tbl \in TableOutcomes :
        /\ initialized = _initialize_agentcore(agentcore).initialized
        /\ memory_client = _initialize_agentcore(agentcore).memory_client
        /\ memory_id = _initialize_agentcore(agentcore).memory_id
        /\ session_table = _ensure_session_table_exists(tbl)
        /\ events = {}
        /\ table = {}
        /\ clock = 0
        /\ generated = {}
        /\ faults = 0
        /\ reads = 0
        /\ last = NoOperation
        /\ inflight = <<>>
        /\ ui = NoUI

WriteOps == {"create_session", "store_message", "delete_session"}

\* Whether one of the store calls of a call log raised.
SomeCallFailed(calls) == \E i \in 1..Len(calls) : ~calls[i].ok

\* What every operation leaves: the stores and the clock of its result, and
\* the record of the call.
Outcome(op, args, r, max_reads, max_faults) ==
    /\ reads < max_reads
    /\ reads' = IF op \in WriteOps THEN reads ELSE reads + 1
    /\ faults' = IF op \in WriteOps /\ SomeCallFailed(r.calls) THEN faults + 1 ELSE faults
    /\ faults' <= max_faults
    /\ events' = r.events
    /\ table' = r.table
    /\ clock' = r.clock
    /\ last' = [op |-> op, args |-> args, ret |-> r.ret, raised |-> r.raised,
                calls |-> r.calls]
    /\ UNCHANGED <<initialized, memory_client, memory_id, session_table, inflight>>

\* An operation called directly, with no browser session involved
FinishWithin(op, args, r, max_reads, max_faults) ==
    /\ Outcome(op, args, r, max_reads, max_faults)
    /\ UNCHANGED ui

Finish(op, args, r) == FinishWithin(op, args, r, MaxReads, MaxFaultyWrites)

\* The clock stops the model: room for MaxStores complete store_message calls
\* (three reads each) and one read per create_session.
MaxClock == 3 * MaxStores + MaxSessions

\* Which calls of one store_message raise (f1, f2, fget, fput): a failed
\* create_event ends the call, so the later flags matter only without it.
StoreFailures ==
    {<<TRUE, FALSE, FALSE, FALSE>>, <<FALSE, TRUE, FALSE, FALSE>>}
        \cup {<<FALSE, FALSE, fget, fput>> : fget \in BOOLEAN, fput \in BOOLEAN}

CreateSession ==
    \E user_id \in Users, uuid \in 1..MaxSessions, fput \in BOOLEAN :
        /\ SessionId(uuid) \notin generated
        /\ generated' = generated \cup {SessionId(uuid)}
        /\ Finish("create_session", <<user_id>>, create_session(user_id, uuid, fput))

StoreMessage ==
    \E user_id \in Users, session_id \in generated, message \in Messages,
       response \in Responses, fails \in StoreFailures :
        /\ clock + 3 <= MaxClock
        /\ Finish("store_message", <<user_id, session_id, message, response>>,
                  store_message(user_id, session_id, message, response,
                                fails[1], fails[2], fails[3], fails[4]))
        /\ UNCHANGED generated

GetSessionMessages ==
    \E user_id \in Users, session_id \in generated, flist \in BOOLEAN,
       order \in StoreOrders :
        /\ Finish("get_session_messages", <<user_id, session_id>>,
                  get_session_messages(user_id, session_id, flist, order))
        /\ UNCHANGED generated

GetConversationContext ==
    \E user_id \in Users, session_id \in generated, query \in ContextQueries,
       max_messages \in (0..MaxCtxArg) \cup {DefaultMaxMessages}, flist \in BOOLEAN,
       order \in StoreOrders :
        /\ Finish("get_conversation_context", <<user_id, session_id, query, max_messages>>,
                  get_conversation_context(user_id, session_id, query, max_messages,
                                           flist, order))
        /\ UNCHANGED generated

GetUserPreferences ==
    \E user_id \in Users, fails \in PreferenceFailures(generated),
       order \in StoreOrders, rev \in BOOLEAN :
        /\ Finish("get_user_preferences", <<user_id>>,
                  get_user_preferences(user_id, fails[1], fails[2], order, rev))
        /\ UNCHANGED generated

GenerateFollowUpQuestions ==
    \E user_id \in Users, current_query \in Queries,
       fails \in PreferenceFailures(generated), order \in StoreOrders, rev \in BOOLEAN :
        /\ Finish("generate_follow_up_questions", <<user_id, current_query>>,
                  generate_follow_up_questions(user_id, current_query, fails[1], fails[2],
                                               order, rev))
        /\ UNCHANGED generated

GetUserSessions ==
    \E user_id \in Users, limit \in 1..MaxSessions, fail \in TableFailures :
        /\ Finish("get_user_sessions", <<user_id, limit>>,
                  get_user_sessions(user_id, limit, fail))
        /\ UNCHANGED generated

DeleteSession ==
    \E user_id \in Users, session_id \in generated, flist \in BOOLEAN,
       order \in StoreOrders, fdel \in BOOLEAN :
        LET listing == delete_session_listing(user_id, session_id, flist, order)
        IN \E failing \in DeleteFailures(listing.val) :
               /\ Finish("delete_session", <<user_id, session_id>>,
                         delete_session(user_id, session_id, listing, failing, fdel))
               /\ UNCHANGED generated

Next ==
    \/ CreateSession
    \/ StoreMessage
    \/ GetSessionMessages
    \/ GetConversationContext
    \/ GetUserPreferences
    \/ GenerateFollowUpQuestions
    \/ GetUserSessions
    \/ DeleteSession

Spec == Init /\ [][Next]_vars

----------------------------------------------------------------------------
(* A manager attached to stores that already hold one long session: the    *)
(* stores outlive the process, and an earlier run of the application left  *)
(* create_session followed by PriorExchanges complete store_message calls. *)

PriorExchanges == MaxResults \div 2 + PageExtra
PriorUser == UserDot
PriorSession == SessionId(1)
PriorEvents ==
    UNION {{NewEvent(_sanitize_actor_id(PriorUser), PriorSession, TxtWarranty, "USER",
                     3 * k - 1),
            NewEvent(_sanitize_actor_id(PriorUser), PriorSession, TxtReply, "ASSISTANT",
                     3 * k)} : k \in 1..PriorExchanges}
PriorRow ==
    [user_id |-> PriorUser, session_id |-> PriorSession,
     last_message |-> Prefix(TxtWarranty, PreviewLimit),
     last_response |-> Prefix(TxtReply, PreviewLimit),
     last_updated |-> 3 * PriorExchanges + 1, message_count |-> PriorExchanges]

InitPage ==
    /\ initialized = _initialize_agentcore("attached").initialized
    /\ memory_client = _initialize_agentcore("attached").memory_client
    /\ memory_id = _initialize_agentcore("attached").memory_id
    /\ session_table = _ensure_session_table_exists("attached")
    /\ events = PriorEvents
    /\ table = {PriorRow}
    /\ clock = 3 * PriorExchanges + 1
    /\ generated = {PriorSession}
    /\ faults = 0
    /\ reads = 0
    /\ last = NoOperation
    /\ inflight = <<>>
    /\ ui = NoUI

NextPage ==
    \/ DeleteSession
    \/ GetSessionMessages

SpecPage == InitPage /\ [][NextPage]_vars

----------------------------------------------------------------------------
(* A manager attached to stores that hold one session with a history of up *)
(* to MaxHistory exchanges, as create_session and that many complete       *)
(* store_message calls leave them: the histories get_user_preferences is   *)
(* tried on.                                                               *)

PrefMessages == {TxtWarranty, TxtWarrantyMars, TxtMars, TxtAccount, TxtReply}
Histories == UNION {[1..k -> PrefMessages] : k \in 0..MaxHistory}

HistoryEvents(history) ==
    UNION {{NewEvent(_sanitize_actor_id(PriorUser), PriorSession, history[k], "USER",
                     3 * k - 1),
            NewEvent(_sanitize_actor_id(PriorUser), PriorSession, TxtReply, "ASSISTANT",
                     3 * k)} : k \in 1..Len(history)}
HistoryRow(history) ==
    [user_id |-> PriorUser, session_id |-> PriorSession,
     last_message |-> IF history = <<>> THEN NewSessionPreview
                      ELSE Prefix(history[Len(history)], PreviewLimit),
     last_response |-> IF history = <<>> THEN <<>> ELSE Prefix(TxtReply, PreviewLimit),
     last_updated |-> 3 * Len(history) + 1, message_count |-> Len(history)]

InitPrefs ==
    \E history \in Histories :
        /\ initialized = _initialize_agentcore("attached").initialized
        /\ memory_client = _initialize_agentcore("attached").memory_client
        /\ memory_id = _initialize_agentcore("attached").memory_id
        /\ session_table = _ensure_session_table_exists("attached")
        /\ events = HistoryEvents(history)
        /\ table = {HistoryRow(history)}
        /\ clock = 3 * Len(history) + 1
        /\ generated = {PriorSession}
        /\ faults = 0
        /\ reads = 0
        /\ last = NoOperation
        /\ inflight = <<>>
        /\ ui = NoUI

NextPrefs ==
    \/ GetUserPreferences

SpecPrefs == InitPrefs /\ [][NextPrefs]_vars

----------------------------------------------------------------------------
(* _sanitize_actor_id tried on every identifier of up to MaxIdLen          *)
(* characters: letters, digits, the two characters the pattern allows      *)
(* besides them, and two it does not.                                      *)

IdChars == {"a", "7", "_", "-", ".", "@"}
Identifiers == UNION {[1..k -> IdChars] : k \in 0..MaxIdLen}

\* One application per behaviour: the function keeps no state.
Sanitize ==
    \E user_id \in Identifiers :
        /\ last.op = NoOperation.op
        /\ last' = [op |-> "_sanitize_actor_id", args |-> <<user_id>>,
                    ret |-> _sanitize_actor_id(user_id), raised |-> FALSE,
                    calls |-> <<>>]
        /\ UNCHANGED <<initialized, memory_client, memory_id, session_table, events,
                       table, clock, generated, faults, reads, inflight, ui>>

NextSanitize ==
    \/ Sanitize

SpecSanitize == Init /\ [][NextSanitize]_vars

----------------------------------------------------------------------------
(* The metadata table under create_session, store_message and              *)
(* get_user_sessions, with RowSessions session identifiers that uuid4      *)
(* returns in any order.                                                   *)

RowClock == 3 * RowStores + RowSessions

CreateSessionRows ==
    \E user_id \in Users, uuid \in 1..RowSessions, fput \in BOOLEAN :
        /\ SessionId(uuid) \notin generated
        /\ generated' = generated \cup {SessionId(uuid)}
        /\ FinishWithin("create_session", <<user_id>>, create_session(user_id, uuid, fput),
                        RowReads, RowFaults)

StoreMessageRows ==
    \E user_id \in Users, session_id \in generated, fails \in StoreFailures :
        /\ clock + 3 <= RowClock
        /\ FinishWithin("store_message", <<user_id, session_id, TxtWarranty, TxtReply>>,
                        store_message(user_id, session_id, TxtWarranty, TxtReply,
                                      fails[1], fails[2], fails[3], fails[4]),
                        RowReads, RowFaults)
        /\ UNCHANGED generated

GetUserSessionsRows ==
    \E user_id \in Users, limit \in 1..RowSessions, fail \in TableFailures :
        /\ FinishWithin("get_user_sessions", <<user_id, limit>>,
                        get_user_sessions(user_id, limit, fail), RowReads, RowFaults)
        /\ UNCHANGED generated

NextRows ==
    \/ CreateSessionRows
    \/ StoreMessageRows
    \/ GetUserSessionsRows

SpecRows == Init /\ [][NextRows]_vars

----------------------------------------------------------------------------
(* store_message step by step, for calls that run concurrently: each call   *)
(* reads the clock and calls the stores in the order of its code, and the   *)
(* steps of different calls interleave in any way. The manager holds no     *)
(* lock.                                                                    *)

\* An event store that keeps one event per actor, session and role
OverwriteEvent(evs, event) ==
    {x \in evs : ~(/\ x.actorId = event.actorId
                   /\ x.sessionId = event.sessionId
                   /\ x.payload[1].role = event.payload[1].role)} \cup {event}

\* An event store that acknowledges an event and loses it
DropEvent(evs, event) == evs

\* memory_client.create_event(...): the store appends the event
AppendEvent(evs, event) == evs \cup {event}

\* A count that adds both turns of the exchange
ReadMessageCountTwice(tb, user_id, session_id, fget) ==
    IF fget THEN 2 ELSE StoredCount(tb, user_id, session_id) + 2

\* message_count = existing.get('Item', {}).get('message_count', 0) + 1, or 1
\* when get_item raises
ReadMessageCount(tb, user_id, session_id, fget) ==
    IF fget THEN 1 ELSE StoredCount(tb, user_id, session_id) + 1

\* The Item of put_item in _update_session_metadata, from the call's locals
MetadataItem(c) ==
    [user_id |-> c.user_id, session_id |-> c.session_id,
     last_message |-> Prefix(c.message, PreviewLimit),
     last_response |-> Prefix(c.response, PreviewLimit),
     last_updated |-> c.timestamp, message_count |-> c.message_count]

\* A store_message call that has not started: its arguments, and its locals
\* not yet set
NewCall(user_id, session_id, message, response) ==
    [pc |-> "start", user_id |-> user_id, session_id |-> session_id,
     message |-> message, response |-> response, base_timestamp |-> 0,
     response_timestamp |-> 0, timestamp |-> 0, message_count |-> 0, calls |-> <<>>]

Stores(evs, tb, clk, running) ==
    [events |-> evs, table |-> tb, clock |-> clk, inflight |-> running]

\* The positions at which a call is about to call a store.
StoreCallPcs == {"append_user", "append_assistant", "get_item", "put_item"}

\* What the next step of call i makes of the stores st; fail: the store call
\* of the step raises.
StoreStep(st, i, fail) ==
    LET c == st.inflight[i]
        actor_id == _sanitize_actor_id(c.user_id)
        Logged(name) == Append(c.calls, Call(name, ~fail))
        After(d) == [st EXCEPT !.inflight[i] = d]
    IN CASE c.pc = "start" ->
                \* if not self.initialized: return; base_timestamp = datetime.now()
                IF ~initialized THEN After([c EXCEPT !.pc = "done"])
                ELSE [After([c EXCEPT !.pc = "append_user",
                                      !.base_timestamp = Now(st.clock)])
                          EXCEPT !.clock = Now(st.clock)]
         [] c.pc = "append_user" ->
                IF fail
                THEN After([c EXCEPT !.pc = "done", !.calls = Logged("create_event")])
                ELSE [After([c EXCEPT !.pc = "sleep", !.calls = Logged("create_event")])
                          EXCEPT !.events =
                              AppendEvent(st.events,
                                          NewEvent(actor_id, c.session_id, c.message,
                                                   "USER", c.base_timestamp))]
         [] c.pc = "sleep" ->
                \* time.sleep(0.1); response_timestamp = datetime.now()
                [After([c EXCEPT !.pc = "append_assistant",
                                 !.response_timestamp = Now(st.clock)])
                     EXCEPT !.clock = Now(st.clock)]
         [] c.pc = "append_assistant" ->
                IF fail
                THEN After([c EXCEPT !.pc = "done", !.calls = Logged("create_event")])
                ELSE [After([c EXCEPT !.pc = "update", !.calls = Logged("create_event")])
                          EXCEPT !.events =
                              AppendEvent(st.events,
                                          NewEvent(actor_id, c.session_id, c.response,
                                                   "ASSISTANT", c.response_timestamp))]
         [] c.pc = "update" ->
                \* if not self.session_table: return; timestamp = datetime.now()
                IF session_table = None THEN After([c EXCEPT !.pc = "done"])
                ELSE [After([c EXCEPT !.pc = "get_item", !.timestamp = Now(st.clock)])
                          EXCEPT !.clock = Now(st.clock)]
         [] c.pc = "get_item" ->
                After([c EXCEPT !.pc = "put_item", !.calls = Logged("get_item"),
                                !.message_count =
                                    ReadMessageCount(st.table, c.user_id, c.session_id,
                                                     fail)])
         [] c.pc = "put_item" ->
                \* a put_item that raises is logged by _update_session_metadata
                IF fail
                THEN After([c EXCEPT !.pc = "return", !.calls = Logged("put_item")])
                ELSE [After([c EXCEPT !.pc = "return", !.calls = Logged("put_item")])
                          EXCEPT !.table = PutItem(st.table, MetadataItem(c))]
         [] c.pc = "return" ->
                \* logger.info(...): store_message returns
                After([c EXCEPT !.pc = "done"])
         [] OTHER -> st

StoreMessageStep ==
    \E i \in DOMAIN inflight, fail \in BOOLEAN :
        /\ inflight[i].pc # "done"
        /\ fail => inflight[i].pc \in StoreCallPcs /\ faults < CallerFaults
        /\ LET r == StoreStep(Stores(events, table, clock, inflight), i, fail)
           IN /\ events' = r.events
              /\ table' = r.table
              /\ clock' = r.clock
              /\ inflight' = r.inflight
              /\ last' = IF r.inflight[i].pc = "done"
                         THEN [op |-> "store_message",
                               args |-> <<inflight[i].user_id, inflight[i].session_id,
                                          inflight[i].message, inflight[i].response>>,
                               ret |-> None, raised |-> FALSE,
                               calls |-> r.inflight[i].calls]
                         ELSE last
        /\ faults' = IF fail THEN faults + 1 ELSE faults
        /\ UNCHANGED <<initialized, memory_client, memory_id, session_table, generated,
                       reads, ui>>

ConcurrentMessages == {TxtWarranty, TxtAccount}

\* Callers calls of store_message for one (user, session) pair about to start,
\* on an initialized manager with a table that holds the row create_session
\* wrote, or no row.
InitConcurrent ==
    \E with_row \in BOOLEAN, messages \in [1..Callers -> ConcurrentMessages] :
        /\ initialized = _initialize_agentcore("attached").initialized
        /\ memory_client = _initialize_agentcore("attached").memory_client
        /\ memory_id = _initialize_agentcore("attached").memory_id
        /\ session_table = _ensure_session_table_exists("attached")
        /\ events = {}
        /\ table = IF with_row THEN {HistoryRow(<<>>)} ELSE {}
        /\ clock = 1
        /\ generated = {PriorSession}
        /\ faults = 0
        /\ reads = 0
        /\ last = NoOperation
        /\ inflight = [i \in 1..Callers |->
                          NewCall(PriorUser, PriorSession, messages[i], TxtReply)]
        /\ ui = NoUI

NextConcurrent ==
    \/ StoreMessageStep

SpecConcurrent == InitConcurrent /\ [][NextConcurrent]_vars

----------------------------------------------------------------------------
(* The long prior session with events of other shapes among its own: the    *)
(* manager adopts an existing memory by name, so other clients of that      *)
(* memory may have written events for the same actor and session. The loop  *)
(* of get_session_messages is written for them.                             *)

\* An event as the store lists it, with any payload
StoredEvent(actor_id, session_id, payload, ts) ==
    [eventId |-> ts, actorId |-> actor_id, sessionId |-> session_id,
     payload |-> payload, eventTimestamp |-> ts]

\* The events of other clients: a tool turn older than the whole session, an
\* event without payload, a blob, a conversational entry without text, and a
\* user turn with the timestamp of a turn of the session.
ForeignEvents ==
    {StoredEvent(_sanitize_actor_id(PriorUser), PriorSession,
                 <<[kind |-> "conversational", role |-> "TOOL", text |-> TxtMars]>>, 1),
     StoredEvent(_sanitize_actor_id(PriorUser), PriorSession, <<>>, 4),
     StoredEvent(_sanitize_actor_id(PriorUser), PriorSession,
                 <<[kind |-> "blob", role |-> "OTHER", text |-> TxtMars]>>,
                 3 * (PriorExchanges \div 2) + 1),
     StoredEvent(_sanitize_actor_id(PriorUser), PriorSession,
                 <<[kind |-> "conversational", role |-> "USER", text |-> <<>>]>>,
                 3 * PriorExchanges + 1),
     [StoredEvent(_sanitize_actor_id(PriorUser), PriorSession,
                  <<[kind |-> "conversational", role |-> "USER", text |-> TxtAccount]>>,
                  3) EXCEPT !.eventId = 0]}

InitParse ==
    \E foreign \in SUBSET ForeignEvents :
        /\ initialized = _initialize_agentcore("attached").initialized
        /\ memory_client = _initialize_agentcore("attached").memory_client
        /\ memory_id = _initialize_agentcore("attached").memory_id
        /\ session_table = _ensure_session_table_exists("attached")
        /\ events = PriorEvents \cup foreign
        /\ table = {PriorRow}
        /\ clock = 3 * PriorExchanges + 1
        /\ generated = {PriorSession}
        /\ faults = 0
        /\ reads = 0
        /\ last = NoOperation
        /\ inflight = <<>>
        /\ ui = NoUI

NextParse ==
    \/ GetSessionMessages

SpecParse == InitParse /\ [][NextParse]_vars

----------------------------------------------------------------------------
(* A manager attached to stores that hold two sessions of one user, as two  *)
(* create_session calls and complete store_message calls leave them: first  *)
(* all the exchanges of the older session, then those of the newer one.     *)
(* uuid4 is random, so either session may have the greater identifier.      *)

\* The older session holds no exchange, one, or enough to fill or nearly fill
\* the messages get_user_preferences inspects.
OlderLengths == {0, 1, PrefMessageLimit - 1, PrefMessageLimit}
NewerLengths == 1..MaxNewer

\* The events of n complete store_message calls with the message text, the
\* first of them starting when the clock read c0.
ExchangeEvents(session_id, text, n, c0) ==
    UNION {{NewEvent(_sanitize_actor_id(PriorUser), session_id, text, "USER",
                     c0 + 3 * k - 2),
            NewEvent(_sanitize_actor_id(PriorUser), session_id, TxtReply, "ASSISTANT",
                     c0 + 3 * k - 1)} : k \in 1..n}

\* The row of a session created when the clock read c0 - 1, after n complete
\* store_message calls with the message text.
ExchangeRow(session_id, text, n, c0) ==
    [user_id |-> PriorUser, session_id |-> session_id,
     last_message |-> IF n = 0 THEN NewSessionPreview ELSE Prefix(text, PreviewLimit),
     last_response |-> IF n = 0 THEN <<>> ELSE Prefix(TxtReply, PreviewLimit),
     last_updated |-> c0 + 3 * n, message_count |-> n]

InitRecent ==
    \E older \in 1..2, n_old \in OlderLengths, n_new \in NewerLengths,
       text_old \in {TxtMars, TxtAccount} :
        LET newer == 3 - older
            c_new == 3 * n_old + 2
        IN /\ initialized = _initialize_agentcore("attached").initialized
           /\ memory_client = _initialize_agentcore("attached").memory_client
           /\ memory_id = _initialize_agentcore("attached").memory_id
           /\ session_table = _ensure_session_table_exists("attached")
           /\ events = ExchangeEvents(SessionId(older), text_old, n_old, 1)
                           \cup ExchangeEvents(SessionId(newer), TxtWarranty, n_new, c_new)
           /\ table = {ExchangeRow(SessionId(older), text_old, n_old, 1),
                       ExchangeRow(SessionId(newer), TxtWarranty, n_new, c_new)}
           /\ clock = c_new + 3 * n_new
           /\ generated = {SessionId(1), SessionId(2)}
           /\ faults = 0
           /\ reads = 0
           /\ last = NoOperation
           /\ inflight = <<>>
           /\ ui = NoUI

NextRecent ==
    \/ GetUserPreferences

SpecRecent == InitRecent /\ [][NextRecent]_vars

----------------------------------------------------------------------------
(* streamlit_ui.py: one authenticated browser session. Streamlit runs the   *)
(* script from the top on every interaction and handles one click per run;  *)
(* a turn (Ask Agent) is one run, in which the manager operations and the   *)
(* runtime invocation follow one another.                                   *)

\* st.session_state.get('username', 'anonymous'): the user who logged in
UIUser == PriorUser
UIQueries == {TxtWarranty}

\* A reply of the runtime with a run of three newlines
TxtRawReply == <<"o", "\n", "\n", "\n", "k">>
\* "I apologize, but I'm experiencing technical difficulties. ..."
TxtApology == <<"I", " ", "a", "p", "o", "l", "o", "g", "i", "z", "e">>

\* What invoke_agent_runtime, response['response'].read() and json.loads come
\* to: one of them raised, the data is a string, or it is something else (text
\* is then what str() makes of it).
RuntimeOutcomes ==
    {[kind |-> "raised", text |-> <<>>],
     [kind |-> "str", text |-> TxtRawReply],
     [kind |-> "other", text |-> TxtReply]}

RECURSIVE ReplaceAll(_, _, _)
\* s.replace(old, new): the occurrences from the left, not overlapping
ReplaceAll(s, old, new) ==
    IF Len(s) < Len(old) THEN s
    ELSE IF SubSeq(s, 1, Len(old)) = old
    THEN new \o ReplaceAll(SubSeq(s, Len(old) + 1, Len(s)), old, new)
    ELSE <<s[1]>> \o ReplaceAll(Tail(s), old, new)

\* response_data.replace('\n\n\n', '\n\n').replace(<20 spaces>, '')
CleanResponse(text) ==
    ReplaceAll(ReplaceAll(text, <<"\n", "\n", "\n">>, <<"\n", "\n">>),
               [i \in 1..IndentWidth |-> " "], <<>>)

\* The text agentcore_runtime_invokation stores and returns for the data
ReplyText(outcome) ==
    IF outcome.kind = "str" THEN CleanResponse(outcome.text) ELSE outcome.text

\* enhanced_query: the query alone, or with the context and the preferences
\* in front of it when there is a context
EnhancedQuery(query, conversation_context, user_preferences) ==
    IF conversation_context = <<>> THEN <<query>>
    ELSE <<"Context from previous conversations:", conversation_context,
           "User preferences:", user_preferences, "Current query:", query>>

\* A turn that stores the exchange whatever the invocation came to
AfterInvokeAlwaysStore(outcome) == "store"

\* Where the run goes after the invocation: to store_message when there is a
\* reply, past it when the try block raised
AfterInvoke(outcome) == IF outcome.kind = "raised" THEN "follow_ups" ELSE "store"

RECURSIVE ChatHistoryFrom(_, _)
\* The chat history rebuilt from a session's turns: a user turn followed by an
\* assistant turn makes one entry; current_query is <<>> or holds the query
ChatHistoryFrom(messages, current_query) ==
    IF Len(messages) = 0 THEN <<>>
    ELSE IF messages[1].role = "user"
    THEN ChatHistoryFrom(Tail(messages), <<messages[1].content>>)
    ELSE IF messages[1].role = "assistant" /\ current_query # <<>>
    THEN <<[query |-> current_query[1], response |-> messages[1].content]>>
             \o ChatHistoryFrom(Tail(messages), <<>>)
    ELSE ChatHistoryFrom(Tail(messages), current_query)

\* The sessions the sidebar shows a confirmation dialog for: those of the
\* rendered list whose confirm_delete flag is set
RenderedConfirmations(rendered) == {s \in rendered : s \in ui.confirm_delete}

\* user_sessions as the sidebar renders them: what get_user_sessions returned,
\* and the current session if it is not among them; fail the failure of the
\* listing
RenderedSessions(fail) ==
    LET user_sessions == get_user_sessions(UIUser, UISessionLimit, fail).ret
    IN {user_sessions[i].session_id : i \in 1..Len(user_sessions)}
           \cup (IF ui.session_id # <<>> THEN {ui.session_id} ELSE {})

UIOutcome(op, args, r) == Outcome(op, args, r, UIReads, UIFaults)
UIMaxClock == 3 * UIStores + UISessions

\* The first run after login: if 'session_id' not in st.session_state
UIFirstRun ==
    \E uuid \in 1..UISessions, fput \in BOOLEAN :
        /\ ui.pc = "login"
        /\ SessionId(uuid) \notin generated
        /\ generated' = generated \cup {SessionId(uuid)}
        /\ UIOutcome("create_session", <<UIUser>>, create_session(UIUser, uuid, fput))
        /\ ui' = [ui EXCEPT !.pc = "idle", !.session_id = SessionId(uuid)]

\* "New Chat Session"
UINewSession ==
    \E uuid \in 1..UISessions, fput \in BOOLEAN :
        /\ ui.pc = "idle"
        /\ SessionId(uuid) \notin generated
        /\ generated' = generated \cup {SessionId(uuid)}
        /\ UIOutcome("create_session", <<UIUser>>, create_session(UIUser, uuid, fput))
        /\ ui' = [ui EXCEPT !.session_id = SessionId(uuid), !.chat_history = <<>>]

\* A click on the button of a session that is not the current one
UISwitchSession ==
    \E fail \in TableFailures, flist \in BOOLEAN, order \in StoreOrders :
        \E session_id \in RenderedSessions(fail) :
            LET got == get_session_messages(UIUser, session_id, flist, order)
            IN /\ ui.pc = "idle"
               /\ session_id # ui.session_id
               /\ UIOutcome("get_session_messages", <<UIUser, session_id>>, got)
               /\ ui' = [ui EXCEPT !.session_id = session_id,
                                   !.chat_history = ChatHistoryFrom(got.ret, <<>>)]
               /\ UNCHANGED generated

\* A click on the delete button, which only sessions other than the current
\* one have
UIClickDelete ==
    \E fail \in TableFailures :
        \E session_id \in RenderedSessions(fail) :
            /\ ui.pc = "idle"
            /\ session_id # ui.session_id
            /\ session_id \notin ui.confirm_delete
            /\ ui' = [ui EXCEPT !.confirm_delete = @ \cup {session_id}]
            /\ UNCHANGED <<initialized, memory_client, memory_id, session_table, events,
                           table, clock, generated, faults, reads, last, inflight>>

\* "Yes" in a confirmation dialog
UIConfirmYes ==
    \E fail \in TableFailures, flist \in BOOLEAN, order \in StoreOrders,
       fdel \in BOOLEAN :
        \E session_id \in RenderedConfirmations(RenderedSessions(fail)) :
            LET listing == delete_session_listing(UIUser, session_id, flist, order)
            IN \E failing \in DeleteFailures(listing.val) :
                   /\ ui.pc = "idle"
                   /\ UIOutcome("delete_session", <<UIUser, session_id>>,
                                delete_session(UIUser, session_id, listing, failing,
                                               fdel))
                   /\ ui' = [ui EXCEPT !.confirm_delete = @ \ {session_id}]
                   /\ UNCHANGED generated

\* "No" in a confirmation dialog
UIConfirmNo ==
    \E fail \in TableFailures :
        \E session_id \in RenderedConfirmations(RenderedSessions(fail)) :
            /\ ui.pc = "idle"
            /\ ui' = [ui EXCEPT !.confirm_delete = @ \ {session_id}]
            /\ UNCHANGED <<initialized, memory_client, memory_id, session_table, events,
                           table, clock, generated, faults, reads, last, inflight>>

\* "Ask Agent" with a query: agentcore_runtime_invokation begins with
\* get_conversation_context
UIAskAgent ==
    \E query \in UIQueries, flist \in BOOLEAN, order \in StoreOrders :
        LET got == get_conversation_context(UIUser, ui.session_id, query,
                                            DefaultMaxMessages, flist, order)
        IN /\ ui.pc = "idle"
           /\ reads + 3 <= UIReads
           /\ UIOutcome("get_conversation_context",
                        <<UIUser, ui.session_id, query, DefaultMaxMessages>>, got)
           /\ ui' = [ui EXCEPT !.pc = "preferences", !.query = query,
                               !.prompt = <<got.ret>>, !.outcome = "none",
                               !.reply = <<>>,
                               !.steps = <<"get_conversation_context">>]
           /\ UNCHANGED generated

\* user_preferences = session_manager.get_user_preferences(user_id), and the
\* enhanced query
UIReadPreferences ==
    \E fails \in PreferenceFailures(generated), order \in StoreOrders, rev \in BOOLEAN :
        LET got == get_user_preferences(UIUser, fails[1], fails[2], order, rev)
        IN /\ ui.pc = "preferences"
           /\ UIOutcome("get_user_preferences", <<UIUser>>, got)
           /\ ui' = [ui EXCEPT !.pc = "invoke",
                               !.prompt = EnhancedQuery(ui.query, ui.prompt[1], got.ret),
                               !.steps = Append(@, "get_user_preferences")]
           /\ UNCHANGED generated

\* agent_core_client.invoke_agent_runtime(...) and the reading of its response
UIInvoke ==
    \E outcome \in RuntimeOutcomes :
        /\ ui.pc = "invoke"
        /\ ui' = [ui EXCEPT !.pc = AfterInvoke(outcome), !.outcome = outcome.kind,
                            !.reply = IF outcome.kind = "raised" THEN TxtApology
                                      ELSE ReplyText(outcome),
                            !.steps = Append(@, "invoke_agent_runtime")]
        /\ UNCHANGED <<initialized, memory_client, memory_id, session_table, events,
                       table, clock, generated, faults, reads, last, inflight>>

\* session_manager.store_message(user_id, session_id, query, reply)
UIStoreMessage ==
    \E fails \in StoreFailures :
        /\ ui.pc = "store"
        /\ clock + 3 <= UIMaxClock
        /\ UIOutcome("store_message", <<UIUser, ui.session_id, ui.query, ui.reply>>,
                     store_message(UIUser, ui.session_id, ui.query, ui.reply,
                                   fails[1], fails[2], fails[3], fails[4]))
        /\ ui' = [ui EXCEPT !.pc = "follow_ups", !.steps = Append(@, "store_message")]
        /\ UNCHANGED generated

\* The rest of the run: the chat history entry and the follow-up questions
UIFollowUps ==
    \E fails \in PreferenceFailures(generated), order \in StoreOrders, rev \in BOOLEAN :
        /\ ui.pc = "follow_ups"
        /\ UIOutcome("generate_follow_up_questions", <<UIUser, ui.query>>,
                     generate_follow_up_questions(UIUser, ui.query, fails[1], fails[2],
                                                  order, rev))
        /\ ui' = [ui EXCEPT !.pc = "idle",
                            !.chat_history =
                                Append(@, [query |-> ui.query, response |-> ui.reply]),
                            !.steps = Append(@, "generate_follow_up_questions")]
        /\ UNCHANGED generated

\* The user has logged in; the manager is constructed on the first run.
InitUI ==
    \E agentcore \in AgentCoreOutcomes, tbl \in TableOutcomes :
        /\ initialized = _initialize_agentcore(agentcore).initialized
        /\ memory_client = _initialize_agentcore(agentcore).memory_client
        /\ memory_id = _initialize_agentcore(agentcore).memory_id
        /\ session_table = _ensure_session_table_exists(tbl)
        /\ events = {}
        /\ table = {}
        /\ clock = 0
        /\ generated = {}
        /\ faults = 0
        /\ reads = 0
        /\ last = NoOperation
        /\ inflight = <<>>
        /\ ui = [NoUI EXCEPT !.pc = "login"]

NextUI ==
    \/ UIFirstRun
    \/ UINewSession
    \/ UISwitchSession
    \/ UIClickDelete
    \/ UIConfirmYes
    \/ UIConfirmNo
    \/ UIAskAgent
    \/ UIReadPreferences
    \/ UIInvoke
    \/ UIStoreMessage
    \/ UIFollowUps

SpecUI == InitUI /\ [][NextUI]_vars

----------------------------------------------------------------------------
(* Properties *)

\* The two lists get_user_preferences fills are empty.
NoPreferences(preferences) ==
    preferences.preferred_topics = <<>> /\ preferences.common_issues = <<>>

\* Every event listing among the calls raised (none was made, also).
AllListingsFailed(calls) ==
    \A i \in 1..Len(calls) : calls[i].call = "list_events" => ~calls[i].ok

\* C1 as stated: if attaching to either store failed (the manager is not
\* initialized, or it holds no table handle), every read returns an empty
\* result and every write leaves both stores unchanged.
C1_EitherFailureDisablesAll ==
    [][(~initialized \/ session_table = None) =>
           /\ last'.op \in {"get_session_messages", "get_user_sessions",
                            "get_conversation_context"} => last'.ret = <<>>
           /\ last'.op = "get_user_preferences" => NoPreferences(last'.ret)
           /\ last'.op \in WriteOps => events' = events /\ table' = table]_vars

\* C1, amended: each store degrades on its own. On a manager that is not
\* initialized, get_session_messages and get_conversation_context return
\* empty results, get_user_preferences finds no topic and no issue,
\* store_message and delete_session leave both stores unchanged, and no
\* operation changes the event store. On a manager without a table handle,
\* get_user_sessions returns an empty sequence, get_user_preferences finds no
\* topic and no issue, and no operation changes the metadata table.
C1_EachStoreDegradesAlone ==
    [][/\ ~initialized =>
           /\ last'.op \in {"get_session_messages", "get_conversation_context"}
                  => last'.ret = <<>>
           /\ last'.op = "get_user_preferences" => NoPreferences(last'.ret)
           /\ last'.op \in {"store_message", "delete_session"}
                  => events' = events /\ table' = table
           /\ events' = events
       /\ session_table = None =>
           /\ last'.op = "get_user_sessions" => last'.ret = <<>>
           /\ last'.op = "get_user_preferences" => NoPreferences(last'.ret)
           /\ table' = table]_vars

\* A store_message on a manager that is not initialized, whose table holds a row.
C1_Witness ==
    /\ ~initialized
    /\ session_table # None
    /\ table # {}
    /\ last.op = "store_message"

\* C2: no public operation ends in a raised error, whatever store calls fail;
\* each returns its fallback value: the generated identifier (create_session),
\* nothing (store_message), an empty sequence (get_session_messages,
\* get_user_sessions) or text (get_conversation_context), false
\* (delete_session), the default preferences (get_user_preferences), the
\* suggestions of the query alone (generate_follow_up_questions).
C2_NothingRaised ==
    /\ ~last.raised
    /\ last.op = "create_session" => last.ret \in SessionIds
    /\ last.op = "store_message" => last.ret = None
    /\ (last.op \in {"get_session_messages", "get_conversation_context",
                     "get_user_sessions"} /\ SomeCallFailed(last.calls))
           => last.ret = <<>>
    /\ (last.op = "delete_session" /\ ~last.calls[1].ok) => last.ret = FALSE
    /\ last.op = "get_user_preferences" =>
           /\ last.ret.communication_style = "professional"
           /\ last.ret.response_length = "medium"
           /\ AllListingsFailed(last.calls) => NoPreferences(last.ret)
    /\ (last.op = "generate_follow_up_questions" /\ AllListingsFailed(last.calls))
           => last.ret = Prefix(QueryFollowUps(last.args[2]), FollowUpLimit)

\* A delete_session that met a failing store call and returned.
C2_Witness ==
    /\ last.op = "delete_session"
    /\ SomeCallFailed(last.calls)
    /\ ~last.raised
    /\ last.ret \in BOOLEAN

\* C3: on an initialized manager and a session without events,
\* store_message(u, s, m, r) with non-empty m and r whose two appends succeed,
\* followed by a get_session_messages(u, s) whose listing succeeds, returns
\* exactly two turns: user with content m, then assistant with content r.
C3_StoreThenRead ==
    [][(/\ last.op = "store_message"
        /\ Len(last.calls) >= 2
        /\ last.calls[1].ok /\ last.calls[2].ok
        /\ Cardinality(EventsOf(events, _sanitize_actor_id(last.args[1]),
                                last.args[2])) = 2
        /\ last.args[3] # <<>> /\ last.args[4] # <<>>
        /\ last'.op = "get_session_messages"
        /\ last'.args = <<last.args[1], last.args[2]>>
        /\ ~SomeCallFailed(last'.calls))
       => /\ Len(last'.ret) = 2
          /\ last'.ret[1].role = "user" /\ last'.ret[1].content = last.args[3]
          /\ last'.ret[2].role = "assistant"
          /\ last'.ret[2].content = last.args[4]]_vars

\* A get_session_messages that read back the one exchange the store holds,
\* the long message whole.
C3_Witness ==
    /\ last.op = "get_session_messages"
    /\ Cardinality(events) = 2
    /\ Len(last.ret) = 2
    /\ last.ret[1].role = "user" /\ last.ret[1].content = TxtLongAccount
    /\ last.ret[2].role = "assistant" /\ last.ret[2].content = TxtReply

\* C4: create_session returns, without raising, a non-empty identifier that
\* no earlier call returned, whether the table handle is absent, put_item
\* raises or put_item succeeds.
C4_AlwaysAnIdentifier ==
    [][last'.op = "create_session" =>
           /\ ~last'.raised
           /\ last'.ret # <<>>
           /\ last'.ret \in SessionIds
           /\ last'.ret \notin generated
           /\ last'.ret \in generated']_vars

\* A create_session whose put_item raised.
C4_Witness ==
    /\ last.op = "create_session"
    /\ last.calls = <<Call("put_item", FALSE)>>
    /\ last.ret \in generated
    /\ table = {}

\* C5: delete_session returns true if and only if the call deleted at least
\* one event of the session; for a session without events it returns false
\* even when the same call deleted the metadata row.
C5_TrueIffAnEventDeleted ==
    [][last'.op = "delete_session" =>
           /\ (last'.ret = TRUE) <=> (events' # events)
           /\ events' \subseteq events
           /\ (EventsOf(events, _sanitize_actor_id(last'.args[1]), last'.args[2]) = {})
                  => last'.ret = FALSE]_vars

\* A delete_session of a session without events that deleted the row and
\* returned false.
C5_Witness ==
    /\ last.op = "delete_session"
    /\ last.calls = <<Call("list_events", TRUE), Call("delete_item", TRUE)>>
    /\ last.ret = FALSE
    /\ table = {}

\* Every delete_event among the calls succeeded.
AllDeletesSucceeded(calls) ==
    \A i \in 1..Len(calls) : calls[i].call = "delete_event" => calls[i].ok

\* C6: after a delete_session(u, s) whose every event delete succeeds and
\* which returns true, the next get_session_messages(u, s) returns an empty
\* sequence, however many events the session held.
C6_DeletedSessionReadsEmpty ==
    [][(/\ last.op = "delete_session"
        /\ last.ret = TRUE
        /\ AllDeletesSucceeded(last.calls)
        /\ last'.op = "get_session_messages"
        /\ last'.args = last.args)
       => last'.ret = <<>>]_vars

\* The pair (user_id, session_id) has no event and no metadata row.
Gone(evs, tb, user_id, session_id) ==
    /\ EventsOf(evs, _sanitize_actor_id(user_id), session_id) = {}
    /\ \A r \in tb : ~SameKey(r, user_id, session_id)

\* C7 as stated: once delete_session has left a (user, session) pair without
\* events and without a metadata row, the next operation leaves it so too.
C7_DeletedIsTerminal ==
    [][(/\ last.op = "delete_session"
        /\ Gone(events, table, last.args[1], last.args[2]))
       => Gone(events', table', last.args[1], last.args[2])]_vars

\* C7, amended: 'deleted' is not terminal, and store_message is the one way
\* back. A pair of a user and a session identifier create_session has returned
\* that has no events gets events only by a store_message with that session
\* identifier and a user identifier of the same actor identifier; a pair that
\* has no metadata row gets one only by a store_message with that user and
\* session identifier.
C7_OnlyStoreMessageRevives ==
    [][\A u \in Users, s \in generated :
           /\ (/\ EventsOf(events, _sanitize_actor_id(u), s) = {}
               /\ EventsOf(events', _sanitize_actor_id(u), s) # {})
                  => /\ last'.op = "store_message"
                     /\ last'.args[2] = s
                     /\ _sanitize_actor_id(last'.args[1]) = _sanitize_actor_id(u)
           /\ (/\ \A r \in table : ~SameKey(r, u, s)
               /\ \E r \in table' : SameKey(r, u, s))
                  => /\ last'.op = "store_message"
                     /\ last'.args[1] = u
                     /\ last'.args[2] = s]_vars

\* A delete_session, after a complete store_message, that returned true and
\* left its pair without events and without a row.
C7_Witness ==
    /\ last.op = "delete_session"
    /\ last.ret = TRUE
    /\ Gone(events, table, last.args[1], last.args[2])
    /\ clock >= 4

\* The lines of a text: its pieces between newlines.
Lines(text) ==
    LET breaks == {i \in 1..Len(text) : text[i] = Newline[1]}
        starts == {1} \cup {i + 1 : i \in breaks}
        EndOf(b) == Least({i \in breaks : i >= b} \cup {Len(text) + 1}) - 1
    IN IF text = <<>> THEN {} ELSE {SubSeq(text, b, EndOf(b)) : b \in starts}

\* How many lines a text has.
LineCount(text) ==
    IF text = <<>> THEN 0
    ELSE Cardinality({i \in 1..Len(text) : text[i] = Newline[1]}) + 1

\* line is prefix followed by at most limit characters.
PrefixedWithin(line, prefix, limit) ==
    /\ Len(line) >= Len(prefix)
    /\ SubSeq(line, 1, Len(prefix)) = prefix
    /\ Len(line) - Len(prefix) <= limit

\* C8: each turn get_conversation_context renders carries at most 200
\* characters of message body after its 'Human: ' or 'Assistant: ' prefix.
C8_BodyAtMost200 ==
    (last.op = "get_conversation_context" /\ ~last.raised) =>
        \A line \in Lines(last.ret) :
            \/ PrefixedWithin(line, HumanPrefix, ContextBodyLimit)
            \/ PrefixedWithin(line, AssistantPrefix, ContextBodyLimit)

\* A context with a line of exactly 200 characters of body, rendered from a
\* stored message longer than that.
C8_Witness ==
    /\ last.op = "get_conversation_context"
    /\ \E e \in events : Len(e.payload[1].text) > ContextBodyLimit
    /\ \E line \in Lines(last.ret) :
           /\ PrefixedWithin(line, HumanPrefix, ContextBodyLimit)
           /\ Len(line) = Len(HumanPrefix) + ContextBodyLimit

\* C9: get_conversation_context renders at most max_messages turns, and the
\* empty text when max_messages = 0.
C9_AtMostMaxMessages ==
    (last.op = "get_conversation_context" /\ ~last.raised) =>
        /\ LineCount(last.ret) <= last.args[4]
        /\ last.args[4] = 0 => last.ret = <<>>

\* The history-based candidates: one per issue the stored history shows,
\* warranty before account.
HistoryCandidates(user_id) ==
    LET issues == Range(get_user_preferences(user_id, "none", {}, "asc", FALSE)
                            .ret.common_issues)
    IN (IF "warranty" \in issues THEN <<FollowUpWarrantyHistory>> ELSE <<>>)
       \o (IF "account" \in issues THEN <<FollowUpAccountHistory>> ELSE <<>>)

\* The query-based candidates: of the first of warranty, profile or customer,
\* mars the lowered query contains.
QueryCandidates(current_query) ==
    LET q == Lower(current_query)
    IN CASE Contains(q, KwWarranty) -> FollowUpWarrantyQuery
         [] ~Contains(q, KwWarranty)
            /\ (Contains(q, KwProfile) \/ Contains(q, KwCustomer)) -> FollowUpProfileQuery
         [] ~Contains(q, KwWarranty) /\ ~Contains(q, KwProfile)
            /\ ~Contains(q, KwCustomer) /\ Contains(q, KwMars) -> FollowUpMarsQuery
         [] OTHER -> <<>>

\* C10: generate_follow_up_questions returns at most 3 strings, the first 3
\* of the history-based candidates (warranty, then account) followed by the
\* query-based candidates, in that order and with repetitions kept. The
\* history is the stored one when every store call of the operation succeeded,
\* and a part of it otherwise.
C10_FirstThreeCandidates ==
    (last.op = "generate_follow_up_questions" /\ ~last.raised) =>
        /\ Len(last.ret) <= FollowUpLimit
        /\ \E history \in {<<>>, <<FollowUpWarrantyHistory>>, <<FollowUpAccountHistory>>,
                           <<FollowUpWarrantyHistory, FollowUpAccountHistory>>} :
               /\ ~SomeCallFailed(last.calls) => history = HistoryCandidates(last.args[1])
               /\ last.ret = SubSeq(history \o QueryCandidates(last.args[2]), 1,
                                    IF Len(history \o QueryCandidates(last.args[2]))
                                           < FollowUpLimit
                                    THEN Len(history \o QueryCandidates(last.args[2]))
                                    ELSE FollowUpLimit)

\* Three suggestions out of four candidates: both history-based ones and the
\* first of the two the warranty query brings.
C10_Witness ==
    /\ last.op = "generate_follow_up_questions"
    /\ last.args[2] = TxtWarranty
    /\ last.ret = <<FollowUpWarrantyHistory, FollowUpAccountHistory,
                    FollowUpWarrantyQuery[1]>>

\* The lowered texts of the user's messages in the sessions the table lists
\* for user_id.
UserTexts(user_id) ==
    {Lower(e.payload[1].text) :
        e \in {x \in events : /\ x.actorId = _sanitize_actor_id(user_id)
                              /\ x.payload[1].role = "USER"
                              /\ \E r \in table : SameKey(r, user_id, x.sessionId)}}

FiledWarranty(text) == Contains(text, KwWarranty)
FiledAccount(text) ==
    ~FiledWarranty(text) /\ (Contains(text, KwProfile) \/ Contains(text, KwAccount))
FiledSpaceData(text) ==
    /\ ~FiledWarranty(text)
    /\ ~(Contains(text, KwProfile) \/ Contains(text, KwAccount))
    /\ (Contains(text, KwMars) \/ Contains(text, KwWeather))

NoDuplicates(list) == Cardinality(Range(list)) = Len(list)

\* C11: get_user_preferences files each inspected user message under at most
\* one category, the first that matches of warranty, account (profile or
\* account), space_data (mars or weather): common_issues holds 'warranty'
\* exactly when some message contains 'warranty' and 'account' exactly when
\* some message without 'warranty' contains 'profile' or 'account';
\* preferred_topics holds 'space_data' exactly when some message with none of
\* those contains 'mars' or 'weather'; neither list repeats an entry.
C11_FirstMatchingCategory ==
    (last.op = "get_user_preferences" /\ ~SomeCallFailed(last.calls)) =>
        LET texts == UserTexts(last.args[1])
        IN /\ Range(last.ret.common_issues) =
                  {c \in {"warranty"} : \E t \in texts : FiledWarranty(t)}
                      \cup {c \in {"account"} : \E t \in texts : FiledAccount(t)}
           /\ Range(last.ret.preferred_topics) =
                  {c \in {"space_data"} : \E t \in texts : FiledSpaceData(t)}
           /\ NoDuplicates(last.ret.common_issues)
           /\ NoDuplicates(last.ret.preferred_topics)

\* The preferences of a history of two messages with 'warranty', one of them
\* with 'mars' too: the issue once, no topic.
C11_Witness ==
    /\ last.op = "get_user_preferences"
    /\ ~SomeCallFailed(last.calls)
    /\ UserTexts(last.args[1]) = {Lower(TxtWarrantyMars), Lower(TxtWarranty)}
    /\ Cardinality(events) = 4
    /\ last.ret.common_issues = <<"warranty">>
    /\ last.ret.preferred_topics = <<>>

\* The shape every actor identifier has: only characters of [A-Za-z0-9_-],
\* no two underscores in a row.
WellFormedActor(actor_id) ==
    /\ \A i \in 1..Len(actor_id) : IsActorChar(actor_id[i])
    /\ \A i \in 1..(Len(actor_id) - 1) : ~(actor_id[i] = "_" /\ actor_id[i + 1] = "_")

\* The identifier has no letter and no digit: nothing of it survives.
SanitizesToNothing(user_id) == \A i \in 1..Len(user_id) : ~IsAlnum(user_id[i])

\* C12 as stated: the actor identifier matches
\* [A-Za-z0-9][A-Za-z0-9_-]*[A-Za-z0-9_-] (so it has at least two characters),
\* has no two consecutive underscores, and is 'user' when the identifier
\* sanitizes to nothing.
C12_MatchesTwoCharacterPattern ==
    last.op = "_sanitize_actor_id" =>
        /\ Len(last.ret) >= 2
        /\ IsAlnum(last.ret[1])
        /\ WellFormedActor(last.ret)
        /\ SanitizesToNothing(last.args[1]) => last.ret = PlaceholderActor

\* C12, amended: the actor identifier is non-empty, matches
\* [A-Za-z0-9][A-Za-z0-9_-]* (one character is enough), has no two consecutive
\* underscores, and is 'user' exactly when the identifier has no letter and no
\* digit.
C12_MatchesPattern ==
    last.op = "_sanitize_actor_id" =>
        /\ Len(last.ret) >= 1
        /\ IsAlnum(last.ret[1])
        /\ WellFormedActor(last.ret)
        /\ SanitizesToNothing(last.args[1]) => last.ret = PlaceholderActor
        /\ ~SanitizesToNothing(last.args[1]) =>
               last.ret[1] = last.args[1][CHOOSE i \in 1..Len(last.args[1]) :
                                              /\ IsAlnum(last.args[1][i])
                                              /\ \A j \in 1..(i - 1) :
                                                     ~IsAlnum(last.args[1][j])]

\* An identifier of disallowed characters only, sanitized to the placeholder.
C12_Witness ==
    /\ last.op = "_sanitize_actor_id"
    /\ last.args[1] = <<"@", ".", "_">>
    /\ last.ret = PlaceholderActor

\* C13: get_user_sessions(u, limit) returns at most limit rows, all owned by
\* u, newest first (a row written later stands before a row written
\* earlier), and the empty sequence when the table is unavailable or a table
\* call fails.
C13_NewestFirst ==
    last.op = "get_user_sessions" =>
        /\ Len(last.ret) <= last.args[2]
        /\ \A i \in 1..Len(last.ret) : last.ret[i].user_id = last.args[1]
        /\ \A i \in 1..Len(last.ret), j \in 1..Len(last.ret) :
               i < j => last.ret[i].last_updated > last.ret[j].last_updated
        /\ (session_table = None \/ SomeCallFailed(last.calls)) => last.ret = <<>>

CountOf(tb, user_id, session_id) ==
    IF \E r \in tb : SameKey(r, user_id, session_id)
    THEN (CHOOSE r \in tb : SameKey(r, user_id, session_id)).message_count
    ELSE 0

\* The put_item of the call succeeded.
PutSucceeded(calls) == \E i \in 1..Len(calls) : calls[i] = Call("put_item", TRUE)
\* The get_item of the call succeeded.
GetSucceeded(calls) == \E i \in 1..Len(calls) : calls[i] = Call("get_item", TRUE)

\* C20: a store_message whose put_item succeeds writes message_count = c + 1,
\* c the count of the existing row, or 0 when there is no row or get_item
\* fails; a create_session whose put_item succeeds writes message_count 0. So
\* without failing calls, on an initialized manager with a table, the counts
\* of the rows of a session add up to the number of exchanges its events hold
\* (the two users of the model share their actor identifier).
C20_CountIsPreviousPlusOne ==
    [][/\ (last'.op = "store_message" /\ PutSucceeded(last'.calls)) =>
              /\ \E r \in table' : SameKey(r, last'.args[1], last'.args[2])
              /\ CountOf(table', last'.args[1], last'.args[2]) =
                     (IF GetSucceeded(last'.calls)
                      THEN CountOf(table, last'.args[1], last'.args[2]) ELSE 0) + 1
       /\ (last'.op = "create_session" /\ PutSucceeded(last'.calls)) =>
              /\ \E r \in table' : SameKey(r, last'.args[1], last'.ret)
              /\ CountOf(table', last'.args[1], last'.ret) = 0
       /\ (faults' = 0 /\ initialized /\ session_table # None) =>
              \A s \in generated' :
                  2 * (CountOf(table', UserDot, s) + CountOf(table', UserUnderscore, s))
                      = Cardinality(EventsOf(events', _sanitize_actor_id(UserDot), s))
      ]_vars

\* A row with message_count 2 after two store_message calls, no write having
\* met a failing call.
C20_Witness ==
    /\ faults = 0
    /\ last.op = "store_message"
    /\ CountOf(table, last.args[1], last.args[2]) = 2
    /\ Cardinality(EventsOf(events, _sanitize_actor_id(last.args[1]), last.args[2])) = 4

ReadOps == {"get_session_messages", "get_conversation_context", "get_user_preferences",
            "generate_follow_up_questions", "get_user_sessions"}

\* C15: the read operations leave the event store, the metadata table and the
\* manager's fields unchanged, and the preferences get_user_preferences
\* returns are those of the stored history at the call: the issues and topics
\* of the user's messages in the sessions the table lists for the user.
C15_ReadsChangeNothing ==
    [][last'.op \in ReadOps =>
           /\ events' = events
           /\ table' = table
           /\ <<initialized, memory_client, memory_id, session_table>>'
                  = <<initialized, memory_client, memory_id, session_table>>
           /\ generated' = generated
           /\ (last'.op = "get_user_preferences" /\ ~SomeCallFailed(last'.calls)) =>
                  LET texts == UserTexts(last'.args[1])
                  IN /\ Range(last'.ret.common_issues) =
                            {c \in {"warranty"} : \E t \in texts : FiledWarranty(t)}
                                \cup {c \in {"account"} : \E t \in texts : FiledAccount(t)}
                     /\ Range(last'.ret.preferred_topics) =
                            {c \in {"space_data"} : \E t \in texts : FiledSpaceData(t)}
      ]_vars

\* A get_user_preferences that found an issue in stores that still hold the
\* history.
C15_Witness ==
    /\ last.op = "get_user_preferences"
    /\ last.ret.common_issues # <<>>
    /\ events # {}
    /\ table # {}

\* The events of new are one event of the role with the text, of the call's
\* actor and session.
OneEvent(new, role, text, args) ==
    \E e \in new :
        /\ e.payload[1].role = role
        /\ e.payload[1].text = text
        /\ e.actorId = _sanitize_actor_id(args[1])
        /\ e.sessionId = args[2]

\* C19: store_message does not roll back. If the user event's append fails,
\* no event is appended and the table is unchanged; if the assistant event's
\* append fails, the user event stays stored, alone, and the table is
\* unchanged; if both appends succeed both events stay stored, also when the
\* metadata update fails, which leaves the table unchanged. On a manager that
\* is not initialized store_message changes neither store.
C19_NoRollback ==
    [][last'.op = "store_message" =>
           LET calls == last'.calls
               new == events' \ events
           IN /\ events \subseteq events'
              /\ ~initialized => events' = events /\ table' = table /\ calls = <<>>
              /\ initialized => Len(calls) >= 1
              /\ (initialized /\ ~calls[1].ok) => events' = events /\ table' = table
              /\ (initialized /\ calls[1].ok /\ ~calls[2].ok) =>
                     /\ Cardinality(new) = 1
                     /\ OneEvent(new, "USER", last'.args[3], last'.args)
                     /\ table' = table
              /\ (initialized /\ calls[1].ok /\ calls[2].ok) =>
                     /\ Cardinality(new) = 2
                     /\ OneEvent(new, "USER", last'.args[3], last'.args)
                     /\ OneEvent(new, "ASSISTANT", last'.args[4], last'.args)
                     /\ ~PutSucceeded(calls) => table' = table
      ]_vars

\* A store_message whose second append failed: the store holds its user
\* event alone.
C19_Witness ==
    /\ last.op = "store_message"
    /\ last.calls = <<Call("create_event", TRUE), Call("create_event", FALSE)>>
    /\ Cardinality(events) = 1
    /\ \A e \in events : e.payload[1].role = "USER"

\* The events a store_message call appends, from its locals.
UserEventOf(c) ==
    NewEvent(_sanitize_actor_id(c.user_id), c.session_id, c.message, "USER",
             c.base_timestamp)
AssistantEventOf(c) ==
    NewEvent(_sanitize_actor_id(c.user_id), c.session_id, c.response, "ASSISTANT",
             c.response_timestamp)
\* The k-th store call of the call was a create_event that succeeded.
AppendReturned(c, k) == Len(c.calls) >= k /\ c.calls[k] = Call("create_event", TRUE)
AllDone == \A i \in DOMAIN inflight : inflight[i].pc = "done"
Completed == {i \in DOMAIN inflight : inflight[i].pc = "done"}

\* C16: however concurrent store_message calls for one (user, session) pair
\* interleave, every event whose append succeeded stays in the event store, and
\* once all calls are done with all appends succeeded the store holds exactly
\* the user event and the assistant event of every call.
C16_NoTurnLost ==
    /\ \A i \in DOMAIN inflight :
           /\ AppendReturned(inflight[i], 1) => UserEventOf(inflight[i]) \in events
           /\ AppendReturned(inflight[i], 2) => AssistantEventOf(inflight[i]) \in events
    /\ (AllDone /\ \A i \in DOMAIN inflight : AppendReturned(inflight[i], 2))
           => Cardinality(events) = 2 * Cardinality(DOMAIN inflight)

\* Two calls with the same message ran interleaved (the second started before
\* the first appended its assistant event) and all four appends succeeded.
C16_Witness ==
    /\ inflight # <<>>
    /\ AllDone
    /\ \A i \in DOMAIN inflight : AppendReturned(inflight[i], 2)
    /\ \E i, j \in DOMAIN inflight :
           /\ i # j
           /\ inflight[i].message = inflight[j].message
           /\ inflight[i].base_timestamp < inflight[j].base_timestamp
           /\ inflight[j].base_timestamp < inflight[i].response_timestamp

\* The values message_count can have once every call is done, over all
\* interleavings of the steps left from st in which at most budget store calls
\* raise.
RECURSIVE FinalCounts(_, _)
FinalCounts(st, budget) ==
    LET running == {i \in DOMAIN st.inflight : st.inflight[i].pc # "done"}
    IN IF running = {}
       THEN {StoredCount(st.table, PriorUser, PriorSession)}
       ELSE UNION {FinalCounts(StoreStep(st, i, FALSE), budget) : i \in running}
            \cup UNION {FinalCounts(StoreStep(st, i, TRUE), budget - 1) :
                           i \in {j \in running : /\ budget > 0
                                                  /\ st.inflight[j].pc \in StoreCallPcs}}

\* C17 as stated: from the moment the calls start there is an interleaving that
\* ends with message_count below the number of completed calls and one that
\* ends with message_count above it.
C17_UnderAndOverCount ==
    (inflight # <<>> /\ \A i \in DOMAIN inflight : inflight[i].pc = "start")
        => LET counts == FinalCounts(Stores(events, table, clock, inflight),
                                     CallerFaults)
           IN /\ \E c \in counts : c < Cardinality(DOMAIN inflight)
              /\ \E c \in counts : c > Cardinality(DOMAIN inflight)

\* C17: message_count is never above the number of store_message calls whose
\* put_item succeeded, so once every call has returned it is never above the
\* number of calls that completed; it can be below it.
C17_NeverOverCounts ==
    inflight # <<>>
        => /\ StoredCount(table, PriorUser, PriorSession)
                  <= Cardinality({i \in DOMAIN inflight :
                                     PutSucceeded(inflight[i].calls)})
           /\ AllDone => StoredCount(table, PriorUser, PriorSession)
                             <= Cardinality(Completed)

\* Every call completed, no store call raised, and message_count is below the
\* number of calls: two calls read the same count.
C17_Witness ==
    /\ inflight # <<>>
    /\ AllDone
    /\ faults = 0
    /\ \A i \in DOMAIN inflight : PutSucceeded(inflight[i].calls)
    /\ StoredCount(table, PriorUser, PriorSession) < Cardinality(DOMAIN inflight)

\* The names of the store calls a store_message makes, in order.
WriteOrder == <<"create_event", "create_event", "get_item", "put_item">>

\* C18: within one store_message the assistant event is in the store only with
\* the user event already there and a strictly later timestamp, the metadata
\* row of the call is in the table only with both events in the store, and the
\* store calls made so far are an initial part of user append, assistant
\* append, row read, row write, each but the last successful or the row read.
C18_FixedWriteOrder ==
    \A i \in DOMAIN inflight :
        LET c == inflight[i]
        IN /\ AssistantEventOf(c) \in events
                  => /\ UserEventOf(c) \in events
                     /\ c.base_timestamp < c.response_timestamp
           /\ (c.timestamp > 0 /\ \E row \in table : row.last_updated = c.timestamp)
                  => /\ UserEventOf(c) \in events
                     /\ AssistantEventOf(c) \in events
                     /\ c.response_timestamp < c.timestamp
           /\ Len(c.calls) <= Len(WriteOrder)
           /\ \A k \in 1..Len(c.calls) :
                  /\ c.calls[k].call = WriteOrder[k]
                  /\ (k < Len(c.calls) /\ WriteOrder[k] = "create_event")
                         => c.calls[k].ok

\* A call wrote all three, while another call appended its user event between
\* this call's two appends.
C18_Witness ==
    \E i, j \in DOMAIN inflight :
        /\ i # j
        /\ \E row \in table : row.last_updated = inflight[i].timestamp
        /\ AssistantEventOf(inflight[i]) \in events
        /\ UserEventOf(inflight[j]) \in events
        /\ inflight[i].base_timestamp < inflight[j].base_timestamp
        /\ inflight[j].base_timestamp < inflight[i].response_timestamp

\* The row of the session create_session just returned, when there is one.
CreatedRows == {r \in table : SameKey(r, last.args[1], last.ret)}

\* C21 as stated: a create_session whose put_item succeeded leaves for the new
\* pair a row with message_count 0, an empty last_message, an empty
\* last_response and the current timestamp.
C21_InitialRowEmptyPreviews ==
    (last.op = "create_session" /\ PutSucceeded(last.calls))
        => CreatedRows = {[user_id |-> last.args[1], session_id |-> last.ret,
                           last_message |-> <<>>, last_response |-> <<>>,
                           last_updated |-> clock, message_count |-> 0]}

\* C21: with the table available create_session calls put_item, and when that
\* succeeds the new pair has exactly one row: message_count 0, last_message
\* 'New session started', an empty last_response and the current timestamp.
C21_InitialRow ==
    last.op = "create_session"
        => /\ session_table # None => Len(last.calls) = 1
           /\ PutSucceeded(last.calls)
                  => CreatedRows = {[user_id |-> last.args[1], session_id |-> last.ret,
                                     last_message |-> NewSessionPreview,
                                     last_response |-> <<>>,
                                     last_updated |-> clock, message_count |-> 0]}

\* create_session wrote its row into a table that already held another row.
C21_Witness ==
    /\ last.op = "create_session"
    /\ PutSucceeded(last.calls)
    /\ Cardinality(table) > Cardinality(CreatedRows)

\* The event has a conversational payload with a non-empty text.
Conversational(e) ==
    /\ Len(e.payload) > 0
    /\ e.payload[1].kind = "conversational"
    /\ e.payload[1].text # <<>>
\* The turn an event with a conversational payload stands for.
TurnOf(e) ==
    [role |-> IF e.payload[1].role = "USER" THEN "user" ELSE "assistant",
     content |-> e.payload[1].text, timestamp |-> e.eventTimestamp]
ListSucceeded == last.calls = <<Call("list_events", TRUE)>>

UserTurnsOf(user_id) ==
    {TurnOf(e) : e \in {x \in events :
                            /\ x.actorId = _sanitize_actor_id(user_id)
                            /\ \E r \in table : /\ r.user_id = user_id
                                                /\ r.session_id = x.sessionId
                            /\ Conversational(x)
                            /\ x.payload[1].role = "USER"}}
\* The n turns of T with the latest timestamps, or all of T.
MostRecent(T, n) ==
    {t \in T : Cardinality({u \in T : u.timestamp > t.timestamp}) < n}
\* What the turns of T are filed as under key.
FiledUnder(T, key) == {Category(t)[2] : t \in {u \in T : Category(u)[1] = key}}

\* C23: a get_user_preferences without a failing call, for a user with at most
\* 5 sessions, reports the categories of exactly the 20 user turns with the
\* latest timestamps among the turns of those sessions (of all when there are
\* fewer).
C23_TwentyMostRecent ==
    (/\ last.op = "get_user_preferences"
     /\ ~last.raised
     /\ ~SomeCallFailed(last.calls)
     /\ Cardinality({r \in table : r.user_id = last.args[1]}) <= PrefSessionLimit)
        => LET recent == MostRecent(UserTurnsOf(last.args[1]), PrefMessageLimit)
           IN /\ Range(last.ret.common_issues) = FiledUnder(recent, "common_issues")
              /\ Range(last.ret.preferred_topics) = FiledUnder(recent, "preferred_topics")

\* How many calls of the log are calls of name with outcome ok.
CallCount(calls, name, ok) ==
    Cardinality({k \in 1..Len(calls) : calls[k] = Call(name, ok)})
\* The events the store holds for the pair a call was made for.
SessionEvents(evs, args) == EventsOf(evs, _sanitize_actor_id(args[1]), args[2])

\* C24: a delete_session whose listing succeeded calls delete_event once for
\* each listed event (all the session's events, or 100 of them), whether or
\* not earlier ones raised, and then delete_item; exactly the events whose
\* delete_event succeeded leave the store, and when delete_item succeeds the
\* row is gone however many delete_event calls raised.
C24_BestEffortThenRow ==
    [][(/\ last'.op = "delete_session"
        /\ last'.calls # <<>>
        /\ last'.calls[1] = Call("list_events", TRUE))
          => LET before == SessionEvents(events, last'.args)
                 after == SessionEvents(events', last'.args)
                 listed == IF Cardinality(before) > MaxResults THEN MaxResults
                           ELSE Cardinality(before)
                 calls == last'.calls
             IN /\ Len(calls) = 1 + listed + (IF session_table # None THEN 1 ELSE 0)
                /\ \A k \in 2..(listed + 1) : calls[k].call = "delete_event"
                /\ after \subseteq before
                /\ Cardinality(after)
                       = Cardinality(before) - CallCount(calls, "delete_event", TRUE)
                /\ session_table # None
                       => /\ calls[Len(calls)].call = "delete_item"
                          /\ calls[Len(calls)].ok
                                 => ~\E r \in table' :
                                        SameKey(r, last'.args[1], last'.args[2])]_vars

\* A delete_session met a delete_event that raised, went on to delete other
\* events and the row, and ended with the row gone and events of the session
\* still in the store.
C24_Witness ==
    /\ last.op = "delete_session"
    /\ CallCount(last.calls, "delete_event", FALSE) > 0
    /\ CallCount(last.calls, "delete_event", TRUE) > 0
    /\ CallCount(last.calls, "delete_item", TRUE) = 1
    /\ ~\E r \in table : SameKey(r, last.args[1], last.args[2])
    /\ SessionEvents(events, last.args) # {}

\* The positions of a turn before and at the invocation, and all of them.
ReadingPcs == {"preferences", "invoke"}
TurnPcs == {"preferences", "invoke", "store", "follow_ups"}
\* The step leaves both stores as they are.
StoresUnchanged == events' = events /\ table' = table

\* C25: in every turn the steps are get_conversation_context,
\* get_user_preferences, the invocation and then store_message; store_message
\* is called only when the invocation gave a reply, with the query as the user
\* typed it and the reply the turn returns; the reads and the invocation write
\* nothing, so a turn whose invocation fails leaves both stores as they were.
C25_ReadInvokeStore ==
    [][/\ Len(ui'.steps) >= 1 => ui'.steps[1] = "get_conversation_context"
       /\ Len(ui'.steps) >= 2 => ui'.steps[2] = "get_user_preferences"
       /\ Len(ui'.steps) >= 3 => ui'.steps[3] = "invoke_agent_runtime"
       /\ \A k \in 1..Len(ui'.steps) :
              ui'.steps[k] = "store_message" => k = 4 /\ ui'.outcome # "raised"
       /\ (ui.pc = "idle" /\ ui'.pc = "preferences") => StoresUnchanged
       /\ ui.pc \in ReadingPcs => StoresUnchanged
       /\ (ui.pc \in TurnPcs /\ ui.outcome = "raised") => StoresUnchanged
       /\ (ui.pc \in TurnPcs /\ ui.pc # "store") => StoresUnchanged
       /\ ui.pc = "store"
              => /\ ui.outcome # "raised"
                 /\ last'.op = "store_message"
                 /\ last'.args = <<UIUser, ui.session_id, ui.query, ui.reply>>
                 /\ ui.prompt[Len(ui.prompt)] = ui.query]_<<ui, events, table>>

\* A turn with a prompt enriched by the context of an earlier turn stored its
\* exchange: both events and the row were written with the typed query, and
\* the stored reply is the cleaned reply.
C25_Witness ==
    /\ ui.pc = "follow_ups"
    /\ Len(ui.prompt) > 1
    /\ ui.steps = <<"get_conversation_context", "get_user_preferences",
                    "invoke_agent_runtime", "store_message">>
    /\ ui.reply # TxtRawReply
    /\ last.op = "store_message"
    /\ last.args = <<UIUser, ui.session_id, ui.query, ui.reply>>
    /\ PutSucceeded(last.calls)
    /\ Cardinality(events) = 4

\* C27: the session a delete_session call of the UI names is not the active
\* session at the moment of the call. (No UI action changes the active session
\* without calling another manager operation, so the last operation being a
\* delete_session means the active session is the one it was at the call.)
C27_NeverDeletesActive ==
    (ui.pc # "off" /\ last.op = "delete_session") => last.args[2] # ui.session_id

IsSeparator(c) == c = "_" \/ c = "-"

\* C26 as stated: the actor identifier has only letters, digits, hyphens and
\* underscores, starts and ends with one of them, and no two adjacent
\* characters of it are both separators (hyphen or underscore).
C26_NoAdjacentSeparators ==
    last.op = "_sanitize_actor_id" =>
        /\ Len(last.ret) >= 1
        /\ \A i \in 1..Len(last.ret) : IsActorChar(last.ret[i])
        /\ \A i \in 1..(Len(last.ret) - 1) :
               ~(IsSeparator(last.ret[i]) /\ IsSeparator(last.ret[i + 1]))

\* C26, amended: the actor identifier has only letters, digits, hyphens and
\* underscores, starts with a letter or digit and ends with an allowed
\* character, and no two adjacent characters of it are both underscores;
\* hyphens are kept as they stand in the identifier.
C26_NoAdjacentUnderscores ==
    last.op = "_sanitize_actor_id" =>
        /\ Len(last.ret) >= 1
        /\ \A i \in 1..Len(last.ret) : IsActorChar(last.ret[i])
        /\ IsAlnum(last.ret[1])
        /\ \A i \in 1..(Len(last.ret) - 1) :
               ~(last.ret[i] = "_" /\ last.ret[i + 1] = "_")
        /\ Cardinality({i \in 1..Len(last.ret) : last.ret[i] = "-"})
               <= Cardinality({i \in 1..Len(last.args[1]) : last.args[1][i] = "-"})
        /\ (Len(last.args[1]) > 0 /\ IsAlnum(last.args[1][1]))
               => Cardinality({i \in 1..Len(last.ret) : last.ret[i] = "-"})
                      = Cardinality({i \in 1..Len(last.args[1]) : last.args[1][i] = "-"})

\* Two disallowed characters after a letter became one underscore.
C26_Witness ==
    /\ last.op = "_sanitize_actor_id"
    /\ last.args[1] = <<"a", "@", ".">>
    /\ last.ret = <<"a", "_">>

\* The two newest events of the store: after a store_message whose two appends
\* succeeded, the events it appended.
NewestTwo == {e \in events : Cardinality({x \in events :
                                            x.eventTimestamp > e.eventTimestamp}) < 2}

\* C28: events are isolated per user: after store_message(u1, s, ...) appended
\* its two events, a get_session_messages(u2, s) by another user identifier
\* returns neither of them and a delete_session(u2, s) deletes neither.
C28_EventsIsolatedPerUser ==
    [][(/\ last.op = "store_message"
        /\ Len(last.calls) >= 2
        /\ last.calls[1].ok /\ last.calls[2].ok
        /\ last'.op \in {"get_session_messages", "delete_session"}
        /\ last'.args[1] # last.args[1]
        /\ last'.args[2] = last.args[2])
          => /\ last'.op = "get_session_messages"
                    => \A k \in 1..Len(last'.ret) :
                           last'.ret[k].timestamp
                               \notin {e.eventTimestamp : e \in NewestTwo}
             /\ last'.op = "delete_session" => NewestTwo \subseteq events'
      ]_<<last.op, events>>

\* The calls whose user event and assistant event are both in the store.
BothAppended ==
    {i \in DOMAIN inflight : /\ UserEventOf(inflight[i]) \in events
                             /\ AssistantEventOf(inflight[i]) \in events}

\* C29: with create_session and concurrent store_message calls whose store
\* calls may fail, the message_count of the session's row never exceeds the
\* number of store_message calls that have appended both their events.
C29_CountWithinAppendedExchanges ==
    inflight # <<>>
        => \A r \in table :
               SameKey(r, PriorUser, PriorSession)
                   => r.message_count <= Cardinality(BothAppended)

\* One call lost its assistant append and never reached the row; the other
\* wrote the row with message_count 1.
C29_Witness ==
    /\ inflight # <<>>
    /\ AllDone
    /\ \E i \in DOMAIN inflight :
           /\ AppendReturned(inflight[i], 1)
           /\ Len(inflight[i].calls) = 2
           /\ ~inflight[i].calls[2].ok
    /\ Cardinality(BothAppended) = 1
    /\ StoredCount(table, PriorUser, PriorSession) = 1

\* C30: a delete_session that cannot list the session's events (list_events
\* raises, or there is no client or no memory to ask) makes no other store
\* call, returns false without raising and leaves every event and every row,
\* the session's own included, where it was.
C30_NoListingNoDeletion ==
    [][last'.op = "delete_session"
          => /\ (memory_client = None \/ memory_id = None)
                    => last'.calls = <<Call("list_events", FALSE)>>
             /\ last'.calls = <<Call("list_events", FALSE)>>
                    => /\ last'.ret = FALSE
                       /\ ~last'.raised
                       /\ events' = events
                       /\ table' = table]_vars

\* A delete_session whose listing failed, for a session with events in the
\* store and its row in an available table.
C30_Witness ==
    /\ last.op = "delete_session"
    /\ last.calls = <<Call("list_events", FALSE)>>
    /\ last.ret = FALSE
    /\ session_table # None
    /\ SessionEvents(events, last.args) # {}
    /\ \E r \in table : SameKey(r, last.args[1], last.args[2])

====
